---------------------------- MODULE Spec2Model ----------------------------
(***************************************************************************)
(* A model of the news crawlers of this repository: the per-source        *)
(* fetch_list pipelines of UnifiedNews/crawler/spiders (eastmoney, stcn,   *)
(* ths) and a_stock_news/spiders (cs, stcn), the recency and keyword       *)
(* filters, and list discovery.                                            *)
(*                                                                         *)
(* Conventions.  A Python Optional is a sequence of length at most one:    *)
(* None is << >> and a value x is <<x>>.  A Python str is a sequence of    *)
(* one-character strings.  A publish time is a number of seconds on the    *)
(* UTC+8 wall clock.  The n-th GET of a URL is answered with the n-th      *)
(* element of the URL's response sequence (the last one repeats); status   *)
(* 0 stands for a transport error (timeout, connection error).             *)
(***************************************************************************)
EXTENDS Integers, Sequences, FiniteSets, TLC

VARIABLES
    src,         \* the source whose fetch_list runs
    limit,       \* fetch_list(limit=...)
    sinceDays,   \* fetch_list(since_days=...); 0 also stands for None
    keyword,     \* fetch_list(keyword=...): None or a str
    pc,          \* position in fetch_list
    candidates,  \* the candidate URLs the detail loop iterates over
    page,        \* what the site serves for each URL
    idx,         \* index of the next candidate of the detail loop
    rows,        \* rows / results: the records accepted so far
    seen,        \* eastmoney's `seen` set of the detail loop
    broke,       \* the detail loop was left by `break`
    requests,    \* number of GETs issued so far, per URL
    result,      \* the list fetch_list returned
    fop,         \* the function a behaviour applies or runs step by step
    fin,         \* its arguments and what its environment answers
    fout,        \* its result, or its locals while it runs step by step
    apc,         \* position in a_stock_news stcn.fetch_list
    alimit,      \* a_stock_news stcn.fetch_list(limit=...)
    asrc,        \* index of the next feed or list page
    aitems,      \* its `items`
    ahtml,       \* number of HTML list pages it has requested
    aresult      \* the list it returned

\* the state of a UnifiedNews / cs fetch_list run
pipeVars == <<src, limit, sinceDays, keyword, pc, candidates, page, idx,
              rows, seen, broke, requests, result>>
\* the state of a single function applied to drawn arguments
funVars == <<fop, fin, fout>>
\* the state of an a_stock_news stcn.fetch_list run
astockVars == <<apc, alimit, asrc, aitems, ahtml, aresult>>

vars == <<pipeVars, funVars, astockVars>>

-----------------------------------------------------------------------------
(* Bounds of the model *)

NUrls == 2
MaxLimit == 2
MaxSinceDays == 1
MaxKeywordLen == 2
MaxTextLen == 1
MaxLinks == 3
MaxFeedItems == 2
MaxRetries == 3
MaxRows == 2
MaxRecords == 2
MaxExcerptLen == 5
MaxExcerptLimit == 4

Urls == 1..NUrls

-----------------------------------------------------------------------------
(* Optionals, strings, time *)

None == << >>
Some(x) == <<x>>

\* seconds of a day: datetime.timedelta(days=1)
Day == 86400
\* times are seconds since 1970-01-01 00:00 on the UTC+8 wall clock
Epoch1970 == 0
\* datetime.min (year 1), clamped to the 32-bit integers of TLC
DatetimeMin == -2000000000
Hour == 3600
\* timezone(timedelta(hours=8)), the fixed offset of the crawlers
CstOffset == 8
\* the instant of the run, on the UTC+8 wall clock
NowCst == 100 * Day
\* datetime.now() without a zone: the wall clock of a machine whose zone is
\* UTC+off hours
LocalNow(off) == NowCst - CstOffset * Hour + off * Hour

Min(a, b) == IF a < b THEN a ELSE b
Max(a, b) == IF a > b THEN a ELSE b

-----------------------------------------------------------------------------
(* Python str helpers *)

\* str.lower(), character by character
LowerChar(c) == IF c = "A" THEN "a" ELSE IF c = "B" THEN "b" ELSE c
Lower(s) == [i \in 1..Len(s) |-> LowerChar(s[i])]

\* `needle in hay` for two str
Contains(needle, hay) ==
    \E k \in 0..(Len(hay) - Len(needle)) :
        \A j \in 1..Len(needle) : hay[k + j] = needle[j]

\* truth value of an Optional[str]: None and "" are false
Truthy(optStr) == optStr # None /\ optStr[1] # << >>

-----------------------------------------------------------------------------
(* The site: what a GET of a URL answers *)

\* status of the k-th GET (k >= 1) of a URL whose response sequence is rs
StatusAt(rs, k) == rs[Min(k, Len(rs))]

\* httpx Response.raise_for_status(): 4xx and 5xx raise HTTPStatusError
IsErrorStatus(st) == st >= 400

\* eastmoney.CHANNELS, stcn.REALTIME_CHANNELS, ths.CHANNEL_URLS, cs.CHANNELS
Sources == {"eastmoney", "stcn", "ths", "cs"}
NumChannels(s) ==
    CASE s = "eastmoney" -> 1
      [] s = "stcn"      -> 2
      [] s = "ths"       -> 2
      [] s = "cs"        -> 5

-----------------------------------------------------------------------------
(* eastmoney._try_get: the retry loop `for i in range(retries)` from i on.  *)
(* ok: a response was returned; n: GETs issued.                             *)

RECURSIVE TryGetFrom(_, _, _)
TryGetFrom(rs, i, retries) ==
    IF i >= retries
    THEN [ok |-> FALSE, n |-> i]                    \* raise last_err
    ELSE LET st == StatusAt(rs, i + 1) IN
         IF st = 0
         THEN TryGetFrom(rs, i + 1, retries)        \* httpx.RequestError
         ELSE IF IsErrorStatus(st)
              THEN IF st \in {404, 410}
                   THEN [ok |-> FALSE, n |-> i + 1] \* raise, no retry
                   ELSE TryGetFrom(rs, i + 1, retries)
              ELSE [ok |-> TRUE, n |-> i + 1]

\* a retry loop that treats 404 and 410 like any other error status
RECURSIVE TryGetRetryingAll(_, _, _)
TryGetRetryingAll(rs, i, retries) ==
    IF i >= retries
    THEN [ok |-> FALSE, n |-> i]
    ELSE LET st == StatusAt(rs, i + 1) IN
         IF st = 0 \/ IsErrorStatus(st)
         THEN TryGetRetryingAll(rs, i + 1, retries)
         ELSE [ok |-> TRUE, n |-> i + 1]
EmTryGetRetryingAll(rs, retries) == TryGetRetryingAll(rs, 0, retries)

EmTryGet(rs, retries) == TryGetFrom(rs, 0, retries)

\* stcn/cs._fetch_html_with_fallback: httpx first, then requests(verify=False)
FetchHtmlWithFallback(rs) ==
    IF StatusAt(rs, 1) = 200
    THEN [ok |-> TRUE, n |-> 1]
    ELSE IF StatusAt(rs, 2) = 200
         THEN [ok |-> TRUE, n |-> 2]
         ELSE [ok |-> FALSE, n |-> 2]

\* ths._fetch_article lines 217-223: one GET, any failure gives None
ThsGet(rs) ==
    LET st == StatusAt(rs, 1) IN
    [ok |-> st # 0 /\ ~IsErrorStatus(st), n |-> 1]

-----------------------------------------------------------------------------
(* Field extraction: from the served page to a record, or None *)

Record(u, pg) == [url |-> u, title |-> pg.title, pub |-> pg.pub, body |-> pg.body]

\* eastmoney._fetch_article: no title, no record
EmFetchArticle(u, pg) ==
    LET r == EmTryGet(pg.resp, 3) IN
    [n |-> r.n,
     art |-> IF r.ok /\ pg.title # << >> THEN Some(Record(u, pg)) ELSE None]

\* stcn/cs._parse_detail: None only when title and content are both empty
StcnParseDetail(u, pg) ==
    LET r == FetchHtmlWithFallback(pg.resp) IN
    [n |-> r.n,
     art |-> IF r.ok /\ ~(pg.title = << >> /\ pg.body = << >>)
             THEN Some(Record(u, pg)) ELSE None]

\* ths._fetch_article: no title, no record
ThsFetchArticle(u, pg) ==
    LET r == ThsGet(pg.resp) IN
    [n |-> r.n,
     art |-> IF r.ok /\ pg.title # << >> THEN Some(Record(u, pg)) ELSE None]

-----------------------------------------------------------------------------
(* Recency filters.  pub: Optional publish time; the result is "keep". *)

\* eastmoney.fetch_list lines 208, 234-236
EmCutoff(now, since_days) == now - since_days * Day
EmRecent(pub, cutoff) == ~(pub # None /\ pub[1] < cutoff)

\* stcn.fetch_list lines 313-316 (cs.fetch_list lines 236-252 likewise)
StcnRecent(pub, since_days, now) ==
    ~(since_days # 0 /\ pub # None /\ pub[1] < now - since_days * Day)

\* an _is_recent that rejects a record without a publish time
ThsIsRecentDroppingUndated(pub, since_days, now) ==
    pub # None /\ pub[1] >= now - since_days * Day

\* ths._is_recent
ThsIsRecent(pub, since_days, now) ==
    IF pub = None THEN TRUE ELSE pub[1] >= now - since_days * Day

-----------------------------------------------------------------------------
(* Keyword filters.  kw: Optional[str]; the result is "keep". *)

\* eastmoney.fetch_list lines 239-244
EmKeywordOk(kw, title, summary) ==
    IF Truthy(kw)
    THEN Contains(Lower(kw[1]), Lower(title)) \/ Contains(Lower(kw[1]), Lower(summary))
    ELSE TRUE

\* stcn.fetch_list lines 319-322: one haystack, title.lower() + " " + content.lower()
StcnKeywordOk(kw, title, content) ==
    IF Truthy(kw)
    THEN Contains(Lower(kw[1]), Lower(title) \o <<" ">> \o Lower(content))
    ELSE TRUE

\* cs.fetch_list lines 255-259 and ths.fetch_list lines 309-313:
\* one haystack, (title + " " + body).lower()
JoinedKeywordOk(kw, title, body) ==
    IF Truthy(kw)
    THEN Contains(Lower(kw[1]), Lower(title \o <<" ">> \o body))
    ELSE TRUE

-----------------------------------------------------------------------------
(* Lists *)

Take(s, n) == SubSeq(s, 1, Min(n, Len(s)))

RECURSIVE ConcatAll(_)
ConcatAll(ss) == IF ss = << >> THEN << >> ELSE Head(ss) \o ConcatAll(Tail(ss))

\* the loop `if u not in seen: seen.add(u); out.append(u)`:
\* every distinct element once, at the place of its first occurrence
RECURSIVE DedupFrom(_, _)
DedupFrom(s, acc) ==
    IF s = << >> THEN acc
    ELSE IF \E i \in 1..Len(acc) : acc[i] = Head(s)
         THEN DedupFrom(Tail(s), acc)
         ELSE DedupFrom(Tail(s), Append(acc, Head(s)))

\* every distinct element once, at the place of its last occurrence
RECURSIVE DedupKeepingLast(_)
DedupKeepingLast(s) ==
    IF s = << >> THEN << >>
    ELSE IF \E i \in 2..Len(s) : s[i] = Head(s)
         THEN DedupKeepingLast(Tail(s))
         ELSE <<Head(s)>> \o DedupKeepingLast(Tail(s))

Dedup(s) == DedupFrom(s, << >>)

\* list.sort(key=..., reverse=True): descending and stable.  InsertDesc puts
\* x behind every element whose key is >= the key of x.
RECURSIVE InsertDesc(_, _, _)
InsertDesc(x, kx, keyed) ==
    IF keyed = << >> THEN << <<kx, x>> >>
    ELSE IF Head(keyed)[1] >= kx
         THEN << Head(keyed) >> \o InsertDesc(x, kx, Tail(keyed))
         ELSE << <<kx, x>> >> \o keyed

RECURSIVE SortKeyedDesc(_, _)
SortKeyedDesc(keyed, acc) ==
    IF keyed = << >> THEN acc
    ELSE SortKeyedDesc(Tail(keyed), InsertDesc(Head(keyed)[2], Head(keyed)[1], acc))

\* eastmoney line 251: key = pub_time or datetime.min
EmSortKey(r) == IF r.pub = None THEN DatetimeMin ELSE r.pub[1]
\* stcn lines 330-333, cs lines 266-274: key = pub_dt or 1970-01-01 (UTC+8)
StcnSortKey(r) == IF r.pub = None THEN Epoch1970 ELSE r.pub[1]

EmSorted(rs) ==
    LET k == SortKeyedDesc([i \in 1..Len(rs) |-> <<EmSortKey(rs[i]), rs[i]>>], << >>)
    IN  [i \in 1..Len(k) |-> k[i][2]]
StcnSorted(rs) ==
    LET k == SortKeyedDesc([i \in 1..Len(rs) |-> <<StcnSortKey(rs[i]), rs[i]>>], << >>)
    IN  [i \in 1..Len(k) |-> k[i][2]]

-----------------------------------------------------------------------------
(* The inputs of one run *)

Limits == 0..MaxLimit
SinceDaysChoices == 0..MaxSinceDays
Keywords == {None, Some(<<"a">>)}

\* what one channel page yields: None when the GET or the parse raised,
\* else the article links of the page, already deduplicated per page
DistinctSeqs(n) == {s \in [1..n -> Urls] : \A i, j \in 1..n : i # j => s[i] # s[j]}
ChannelOutcomes == {None} \cup {Some(s) : s \in DistinctSeqs(0) \cup DistinctSeqs(1) \cup DistinctSeqs(2)}

\* the detail pages the site may serve
OldTime == NowCst - Day - 1
EdgeTime == NowCst - Day
FreshTime == NowCst - 1
Page(resp, title, body, pub) == [resp |-> resp, title |-> title, body |-> body, pub |-> pub]
Unserved == Page(<<0>>, << >>, << >>, None)
PageKinds ==
    { Page(<<200>>, <<"b">>, <<"A">>, None),
      Page(<<200>>, <<"A">>, << >>, Some(OldTime)),
      Page(<<200>>, <<"A">>, << >>, Some(EdgeTime)),
      Page(<<200>>, <<"b">>, <<"x">>, Some(FreshTime)),
      Page(<<200>>, << >>, <<"b">>, Some(FreshTime)),
      Page(<<404>>, <<"A">>, << >>, Some(FreshTime)),
      Page(<<410>>, <<"A">>, << >>, Some(FreshTime)),
      Page(<<500, 200>>, <<"A">>, << >>, Some(FreshTime)) }

-----------------------------------------------------------------------------
(* fetch_list of eastmoney, stcn, ths (UnifiedNews) and cs (a_stock_news)    *)

\* stcn line 304, cs line 232: candidate = uniq[: max(limit * 3, 150)]
CandidateFactor == 3
CandidateFloor == 150

\* The candidates the detail loop iterates over, from what the channel pages
\* yielded (chan[i] for the i-th channel; a failed channel is skipped).
\* eastmoney keeps the concatenation and deduplicates inside the detail loop;
\* stcn and cs deduplicate and cut; ths deduplicates.
CandidatesOf(s, lim, chan) ==
    LET all_urls == ConcatAll([i \in 1..Len(chan) |->
                        IF chan[i] = None THEN << >> ELSE chan[i][1]])
    IN  CASE s = "eastmoney" -> all_urls
          [] s \in {"stcn", "cs"} ->
                Take(Dedup(all_urls), Max(lim * CandidateFactor, CandidateFloor))
          [] s = "ths" -> Dedup(all_urls)

\* fetch and parse of one candidate: [n: GETs issued, art: Optional record]
FetchDetail(s, u, pg) ==
    CASE s = "eastmoney"      -> EmFetchArticle(u, pg)
      [] s \in {"stcn", "cs"} -> StcnParseDetail(u, pg)
      [] s = "ths"            -> ThsFetchArticle(u, pg)

\* the recency filter of source s applied to a record; the crawl runs on a
\* machine whose zone is UTC+8
RecentOk(s, r, since_days) ==
    CASE s = "eastmoney"      -> EmRecent(r.pub, EmCutoff(LocalNow(CstOffset), since_days))
      [] s \in {"stcn", "cs"} -> StcnRecent(r.pub, since_days, NowCst)
      [] s = "ths"            -> ThsIsRecent(r.pub, since_days, NowCst)

\* the keyword filter of source s applied to a record
KeywordOk(s, r, kw) ==
    CASE s = "eastmoney" -> EmKeywordOk(kw, r.title, r.body)
      [] s = "stcn"      -> StcnKeywordOk(kw, r.title, r.body)
      [] OTHER           -> JoinedKeywordOk(kw, r.title, r.body)

\* the loop is left by `break` once the limit is reached: eastmoney lines
\* 247-248, stcn lines 326-327 and cs lines 262-263 test after the append;
\* ths lines 289-290 tests at the top of each iteration
BreaksAfterAppend(s, nrows, lim) == s # "ths" /\ nrows >= lim
BreaksAtTop(s, nrows, lim) == s = "ths" /\ nrows >= lim

\* what fetch_list returns: eastmoney lines 251-252 sort and cut, stcn lines
\* 330-334 and cs lines 274-275 sort, ths line 317 returns rows as they are
Returned(s, rs, lim) ==
    CASE s = "eastmoney"      -> Take(EmSorted(rs), lim)
      [] s \in {"stcn", "cs"} -> StcnSorted(rs)
      [] s = "ths"            -> rs

\* the parts of the state a behaviour does not use
PipeIdle ==
    /\ src = "eastmoney" /\ limit = 0 /\ sinceDays = 0 /\ keyword = None
    /\ pc = "idle" /\ candidates = << >> /\ page = [u \in Urls |-> Unserved]
    /\ idx = 1 /\ rows = << >> /\ seen = {} /\ broke = FALSE
    /\ requests = [u \in Urls |-> 0] /\ result = << >>
FunIdle == fop = "none" /\ fin = << >> /\ fout = << >>
AStockIdle ==
    /\ apc = "idle" /\ alimit = 0 /\ asrc = 1
    /\ aitems = << >> /\ ahtml = 0 /\ aresult = << >>

Init ==
    /\ FunIdle /\ AStockIdle
    /\ src \in Sources
    /\ limit \in Limits
    /\ sinceDays \in SinceDaysChoices
    /\ keyword \in Keywords
    /\ pc = "list"
    /\ candidates = << >>
    /\ page = [u \in Urls |-> Unserved]
    /\ idx = 1
    /\ rows = << >>
    /\ seen = {}
    /\ broke = FALSE
    /\ requests = [u \in Urls |-> 0]
    /\ result = << >>

\* the loop over the channels and the building of the candidate list
Discover ==
    /\ pc = "list"
    /\ \E chan \in [1..NumChannels(src) -> ChannelOutcomes] :
           candidates' = CandidatesOf(src, limit, chan)
    /\ pc' = "site"
    /\ UNCHANGED <<src, limit, sinceDays, keyword, page, idx, rows, seen,
                   broke, requests, result,
                   funVars, astockVars>>

\* the environment: the detail pages behind the candidate URLs
SiteServes ==
    /\ pc = "site"
    /\ LET cs == {candidates[i] : i \in 1..Len(candidates)} IN
       \E f \in [cs -> PageKinds] :
           page' = [u \in Urls |-> IF u \in cs THEN f[u] ELSE Unserved]
    /\ pc' = "detail"
    /\ UNCHANGED <<src, limit, sinceDays, keyword, candidates, idx, rows,
                   seen, broke, requests, result,
                   funVars, astockVars>>

\* a loop that gives up at the first item that fails
LeavesLoopAtFirstFailure(s) == TRUE

\* `if not art: continue` (eastmoney, ths), `if not d: continue` (stcn, cs):
\* an item that could not be fetched or parsed is skipped, the loop goes on
LeavesLoopOnFailure(s) == FALSE

\* one iteration of the detail loop
Detail ==
    /\ pc = "detail"
    /\ idx <= Len(candidates)
    /\ ~broke
    /\ ~BreaksAtTop(src, Len(rows), limit)
    /\ LET u == candidates[idx]
           d == FetchDetail(src, u, page[u])
       IN  IF src = "eastmoney" /\ u \in seen
           THEN UNCHANGED <<rows, seen, broke, requests>>
           ELSE /\ seen' = IF src = "eastmoney" THEN seen \cup {u} ELSE seen
                /\ requests' = [requests EXCEPT ![u] = @ + d.n]
                /\ IF d.art = None
                   THEN /\ rows' = rows
                        /\ broke' = LeavesLoopOnFailure(src)
                   ELSE IF /\ RecentOk(src, d.art[1], sinceDays)
                           /\ KeywordOk(src, d.art[1], keyword)
                        THEN /\ rows' = Append(rows, d.art[1])
                             /\ broke' = BreaksAfterAppend(src, Len(rows) + 1, limit)
                        ELSE UNCHANGED <<rows, broke>>
    /\ idx' = idx + 1
    /\ UNCHANGED <<src, limit, sinceDays, keyword, pc, candidates, page, result,
                   funVars, astockVars>>

\* the loop ends; sort, cut and return
Finish ==
    /\ pc = "detail"
    /\ idx > Len(candidates) \/ broke \/ BreaksAtTop(src, Len(rows), limit)
    /\ result' = Returned(src, rows, limit)
    /\ pc' = "done"
    /\ UNCHANGED <<src, limit, sinceDays, keyword, candidates, page, idx,
                   rows, seen, broke, requests,
                   funVars, astockVars>>

Next == Discover \/ SiteServes \/ Detail \/ Finish

Spec == Init /\ [][Next]_vars

-----------------------------------------------------------------------------
(* Properties of fetch_list *)

Unified == {"eastmoney", "stcn", "ths"}
UrlsOf(rs) == {rs[i].url : i \in 1..Len(rs)}

\* the record candidate u yields when it is fetched, parsed and filtered
Qualifies(u) ==
    LET d == FetchDetail(src, u, page[u]) IN
    /\ d.art # None
    /\ RecentOk(src, d.art[1], sinceDays)
    /\ KeywordOk(src, d.art[1], keyword)
RecordOf(u) == FetchDetail(src, u, page[u]).art[1]

\* C1: for every limit >= 0, the list returned by fetch_list of eastmoney,
\* stcn and ths has at most `limit` records.
C1_AtMostLimit ==
    (pc = "done" /\ src \in Unified) => Len(result) <= limit

\* C2: filter, deduplicate and sort come before the cut: the list returned by
\* fetch_list of eastmoney, stcn and cs is the first `limit` entries of the
\* newest-first ordering of all discovered candidates that parse and pass the
\* recency and keyword filters (stated here for limit >= 1).
C2_CutAfterSort ==
    (pc = "done" /\ limit >= 1 /\ src \in {"eastmoney", "stcn", "cs"}) =>
        LET uniq == Dedup(candidates)
            qual == SelectSeq(uniq, Qualifies)
            recs == [i \in 1..Len(qual) |-> RecordOf(qual[i])]
        IN  result = Take(IF src = "eastmoney" THEN EmSorted(recs) ELSE StcnSorted(recs),
                          limit)

C9_TitleNonEmpty ==
    (pc = "done" /\ limit >= 1) => \A i \in 1..Len(result) : result[i].title # << >>

\* C10: in eastmoney a GET answered 404 or 410 is never retried: the URL is
\* requested once, no record is made of it, and it is absent from the output.
C10_NoRetryOn404 ==
    src = "eastmoney" =>
        \A i \in 1..Len(candidates) :
            LET u == candidates[i] IN
            StatusAt(page[u].resp, 1) \in {404, 410} =>
                /\ requests[u] = (IF i < idx THEN 1 ELSE 0)
                /\ u \notin UrlsOf(rows)
                /\ u \notin UrlsOf(result)

C10_Witness ==
    /\ src = "eastmoney" /\ pc = "done"
    /\ \E u \in Urls : StatusAt(page[u].resp, 1) \in {404, 410} /\ requests[u] = 1

-----------------------------------------------------------------------------
(* a_stock_news main.py: the caller's filters *)

\* main._to_dt: None for None, "" and text fromisoformat rejects; a text
\* without zone parses to a naive datetime, which astimezone(CN_TZ) reads on
\* the machine's clock (zone UTC+off) and moves to UTC+8.
\* text: Optional [iso, wall]: iso says fromisoformat accepts it, wall is the
\* wall-clock time it spells.
ToDt(text, off) ==
    IF text = None THEN None
    ELSE IF ~text[1].iso THEN None
         ELSE Some(text[1].wall - off * Hour + CstOffset * Hour)

\* a _recent_enough that excludes the cutoff itself
RecentEnoughExclusive(row, since_days, off) ==
    LET cutoff == NowCst - since_days * Day
        dt == ToDt(row.published_at, off)
    IN  IF dt # None THEN dt[1] > cutoff
        ELSE IF row.onStcn /\ row.urlDate # None
             THEN row.urlDate[1] > cutoff
             ELSE FALSE

\* main._recent_enough.  row.onStcn: "stcn.com" in url (and the stcn module is
\* loaded); row.urlDate: what stcn.date_from_url(url) gives.
RecentEnough(row, since_days, off) ==
    LET cutoff == NowCst - since_days * Day
        dt == ToDt(row.published_at, off)
    IN  IF dt # None THEN dt[1] >= cutoff
        ELSE IF row.onStcn /\ row.urlDate # None
             THEN row.urlDate[1] >= cutoff
             ELSE FALSE

\* a _keyword_ok that compares without lowering
KeywordTitleOkCaseSensitive(kw, title) ==
    IF Truthy(kw) THEN Contains(kw[1], title) ELSE TRUE

\* main._keyword_ok: the title alone
KeywordTitleOk(kw, title) ==
    IF Truthy(kw) THEN Contains(Lower(kw[1]), Lower(title)) ELSE TRUE

-----------------------------------------------------------------------------
(* A function applied to drawn arguments *)

Apply(name, value) ==
    /\ fop = "none"
    /\ fop' = name
    /\ fout' = value
    /\ UNCHANGED <<fin, pipeVars, astockVars>>

-----------------------------------------------------------------------------
(* The recency filters on drawn records *)

MachineOffsets == {0, CstOffset}
CutoffsCst == {NowCst - d * Day : d \in 0..MaxSinceDays}
\* publish times at, one second before and one second after every cutoff a
\* filter can compute
TimesNearCutoff ==
    {c + k + (off - CstOffset) * Hour :
        c \in CutoffsCst, k \in {-1, 0, 1}, off \in MachineOffsets}
RecencyArgs ==
    [since : 0..MaxSinceDays,
     off : MachineOffsets,
     pub : {None} \cup {Some(t) : t \in TimesNearCutoff},
     iso : BOOLEAN,
     onStcn : BOOLEAN,
     urlDate : {None} \cup {Some(c + k) : c \in CutoffsCst, k \in {-1, 0}}]

\* the row _recent_enough is given: published_at spells fin.pub
RowOf(a) ==
    [published_at |-> IF a.pub = None THEN None
                      ELSE Some([iso |-> a.iso, wall |-> a.pub[1]]),
     onStcn |-> a.onStcn,
     urlDate |-> a.urlDate]

InitRecency ==
    /\ PipeIdle /\ AStockIdle
    /\ fop = "none" /\ fout = << >>
    /\ fin \in RecencyArgs

ApplyEmRecent ==
    Apply("eastmoney", EmRecent(fin.pub, EmCutoff(LocalNow(fin.off), fin.since)))
ApplyStcnRecent ==
    Apply("stcn", StcnRecent(fin.pub, fin.since, NowCst))
ApplyThsIsRecent ==
    Apply("ths", ThsIsRecent(fin.pub, fin.since, NowCst))
ApplyRecentEnough ==
    Apply("recent_enough", RecentEnough(RowOf(fin), fin.since, fin.off))

NextRecency ==
    ApplyEmRecent \/ ApplyStcnRecent \/ ApplyThsIsRecent \/ ApplyRecentEnough

SpecRecency == InitRecency /\ [][NextRecency]_vars

\* the cutoff the applied filter computes, and the publish time it compares
CutoffUsed ==
    IF fop = "eastmoney" THEN EmCutoff(LocalNow(fin.off), fin.since)
    ELSE NowCst - fin.since * Day
TimeCompared ==
    IF fop = "recent_enough"
    THEN LET dt == ToDt(RowOf(fin).published_at, fin.off) IN
         IF dt # None THEN dt
         ELSE IF fin.onStcn THEN fin.urlDate ELSE None
    ELSE fin.pub
\* the filter is in force: stcn's is switched off by since_days = 0
FilterActive == fop # "none" /\ (fin.since >= 1 \/ fop # "stcn")

\* C5: the recency cutoff is inclusive in every recency filter (eastmoney,
\* stcn, ths, a_stock_news _recent_enough): a record whose publish time equals
\* the cutoff now - since_days is kept, one a second older is dropped.
C5_CutoffInclusive ==
    FilterActive =>
        /\ TimeCompared = Some(CutoffUsed) => fout = TRUE
        /\ TimeCompared = Some(CutoffUsed - 1) => fout = FALSE

C5_Witness ==
    /\ fop = "recent_enough" /\ fin.since >= 1
    /\ TimeCompared = Some(CutoffUsed) /\ fout = TRUE

-----------------------------------------------------------------------------
(* The keyword filters on drawn records *)

Chars == {"A", "a", "b", " "}
Strs(n) == UNION {[1..k -> Chars] : k \in 0..n}
KeywordArgs ==
    [kw : {None} \cup {Some(k) : k \in Strs(MaxKeywordLen)},
     title : Strs(MaxTextLen),
     body : Strs(MaxTextLen)]

InitKeyword ==
    /\ PipeIdle /\ AStockIdle
    /\ fop = "none" /\ fout = << >>
    /\ fin \in KeywordArgs

ApplyEmKeyword == Apply("eastmoney", EmKeywordOk(fin.kw, fin.title, fin.body))
ApplyStcnKeyword == Apply("stcn", StcnKeywordOk(fin.kw, fin.title, fin.body))
ApplyCsKeyword == Apply("cs", JoinedKeywordOk(fin.kw, fin.title, fin.body))
ApplyThsKeyword == Apply("ths", JoinedKeywordOk(fin.kw, fin.title, fin.body))
ApplyKeywordOk == Apply("keyword_ok", KeywordTitleOk(fin.kw, fin.title))

NextKeyword ==
    ApplyEmKeyword \/ ApplyStcnKeyword \/ ApplyCsKeyword \/ ApplyThsKeyword
        \/ ApplyKeywordOk

SpecKeyword == InitKeyword /\ [][NextKeyword]_vars

\* two characters are the same letter, whatever their case
SameLetter(c, d) == c = d \/ {c, d} = {"A", "a"} \/ {c, d} = {"B", "b"}
\* kw occurs in text, compared case-insensitively
Occurs(kw, text) ==
    \E k \in 0..(Len(text) - Len(kw)) :
        \A j \in 1..Len(kw) : SameLetter(text[k + j], kw[j])
KeywordSet == fin.kw # None /\ fin.kw[1] # << >>
NoSpaceInKeyword == \A j \in 1..Len(fin.kw[1]) : fin.kw[1][j] # " "

\* C6 as stated: with a keyword set, every keyword filter (the spiders' own
\* and a_stock_news _keyword_ok) keeps a record if and only if the keyword
\* occurs, case-insensitively, in the title or in the body/summary; with no
\* keyword nothing is removed.
C6_TitleOrBody ==
    fop # "none" =>
        fout = (KeywordSet => (Occurs(fin.kw[1], fin.title) \/ Occurs(fin.kw[1], fin.body)))

\* C6 as amended: with no keyword nothing is removed; with a keyword set,
\* eastmoney keeps a record iff the keyword occurs, case-insensitively, in
\* the title or in the summary; stcn, cs and ths iff it occurs in the title,
\* one space and the body joined (for a keyword without a space: iff it
\* occurs in the title or in the body); a_stock_news _keyword_ok iff it occurs
\* in the title.
C6_KeywordFilters ==
    /\ fop = "eastmoney" =>
           fout = (KeywordSet => (Occurs(fin.kw[1], fin.title) \/ Occurs(fin.kw[1], fin.body)))
    /\ fop \in {"stcn", "cs", "ths"} =>
           /\ fout = (KeywordSet => Occurs(fin.kw[1], fin.title \o <<" ">> \o fin.body))
           /\ (KeywordSet /\ NoSpaceInKeyword) =>
                  fout = (Occurs(fin.kw[1], fin.title) \/ Occurs(fin.kw[1], fin.body))
    /\ fop = "keyword_ok" =>
           fout = (KeywordSet => Occurs(fin.kw[1], fin.title))

C6_Witness ==
    /\ fop = "keyword_ok" /\ KeywordSet
    /\ Occurs(fin.kw[1], fin.body) /\ ~Occurs(fin.kw[1], fin.title)
    /\ fout = FALSE

-----------------------------------------------------------------------------
(* List discovery on one seed page *)

\* An <a href> of a seed page: written absolute or site-relative, naming a
\* host (the site's own, a foreign one, or none as in "mailto:x.html"), a
\* document, and whether the document is a navigation page. The foreign host
\* here is one whose URL nowhere holds the site's domain name; the predicates
\* on URL strings, with foreign hosts that do hold it, are further below.
Href(form, host, doc, nav) == [form |-> form, host |-> host, doc |-> doc, nav |-> nav]
Hrefs ==
    { Href("abs", "site", 1, FALSE), Href("rel", "none", 1, FALSE),
      Href("abs", "site", 2, FALSE), Href("abs", "site", 3, TRUE),
      Href("abs", "other", 1, FALSE), Href("abs", "none", 1, FALSE) }
SeedPages == UNION {[1..k -> Hrefs] : k \in 0..MaxLinks}

\* urljoin(base_url, href) / _abs_url(u, base): a site-relative href takes
\* the host of the seed page, an absolute one is kept
AbsUrl(h) ==
    [host |-> IF h.form = "rel" THEN "site" ELSE h.host, doc |-> h.doc, nav |-> h.nav]

\* stcn _is_article_like: a foreign host is refused, no host passes;
\* index pages are refused
StcnIsArticleLike(u) == u.host \in {"site", "none"} /\ ~u.nav
StcnOnHost(u) == u.host = "site"
\* stcn _collect_article_urls
StcnCollectArticleUrls(hrefs) ==
    LET urls == SelectSeq([i \in 1..Len(hrefs) |-> AbsUrl(hrefs[i])], StcnIsArticleLike)
    IN  Dedup(SelectSeq(urls, StcnOnHost))

\* ths ARTICLE_URL_RE.findall(html): only absolute article URLs of the site
ThsArticleUrlMatches(h) == h.form = "abs" /\ h.host = "site" /\ ~h.nav
ThsExtractCandidates(hrefs) ==
    LET links == SelectSeq(hrefs, ThsArticleUrlMatches)
    IN  Dedup([i \in 1..Len(links) |-> AbsUrl(links[i])])

\* eastmoney _is_article_like: the site's domain in the url and an article path
EmIsArticleLike(u) == u.host = "site" /\ ~u.nav
EmExtractCandidates(hrefs) ==
    Dedup(SelectSeq([i \in 1..Len(hrefs) |-> AbsUrl(hrefs[i])], EmIsArticleLike))

InitDiscovery ==
    /\ PipeIdle /\ AStockIdle
    /\ fop = "none" /\ fout = << >>
    /\ fin \in SeedPages

ApplyStcnCollect == Apply("stcn", StcnCollectArticleUrls(fin))
ApplyThsExtract == Apply("ths", ThsExtractCandidates(fin))
ApplyEmExtract == Apply("eastmoney", EmExtractCandidates(fin))

NextDiscovery == ApplyStcnCollect \/ ApplyThsExtract \/ ApplyEmExtract

SpecDiscovery == InitDiscovery /\ [][NextDiscovery]_vars

\* the URL the i-th link of the page is accepted as, if it is accepted
AcceptedAt(i) ==
    CASE fop = "ths" ->
            fin[i].form = "abs" /\ fin[i].host = "site" /\ ~fin[i].nav
      [] OTHER ->
            AbsUrl(fin[i]).host = "site" /\ ~fin[i].nav
FirstSeen(u) ==
    CHOOSE i \in 1..Len(fin) :
        /\ AcceptedAt(i) /\ AbsUrl(fin[i]) = u
        /\ \A j \in 1..(i - 1) : ~(AcceptedAt(j) /\ AbsUrl(fin[j]) = u)

\* C8: the candidate list a seed page yields (stcn _collect_article_urls, ths
\* and eastmoney _extract_candidates) holds each distinct accepted URL of the
\* page exactly once, in the order of the first occurrences.
C8_DedupFirstSeen ==
    fop # "none" =>
        /\ \A i, j \in 1..Len(fout) : i # j => fout[i] # fout[j]
        /\ {fout[i] : i \in 1..Len(fout)}
               = {AbsUrl(fin[i]) : i \in {k \in 1..Len(fin) : AcceptedAt(k)}}
        /\ \A i, j \in 1..Len(fout) : i < j => FirstSeen(fout[i]) < FirstSeen(fout[j])

C8_Witness ==
    /\ fop # "none" /\ Len(fin) = 3 /\ Len(fout) = 2
    /\ AbsUrl(fin[1]) = fout[1] /\ AbsUrl(fin[2]) = fout[2] /\ AbsUrl(fin[3]) = fout[1]

-----------------------------------------------------------------------------
(* fetch_list of a_stock_news stcn: RSS first, the HTML list pages if empty *)

NumRssUrls == 2
NumHtmlListUrls == 2

\* an <item> of a feed or an <a href> of a list page: its title text and link
Entry(title, href) == [title |-> title, href |-> href]
Entries ==
    { Entry(<<"A">>, Href("abs", "site", 1, FALSE)),
      Entry(<<"b">>, Href("abs", "site", 2, FALSE)),
      Entry(<<"b">>, Href("rel", "none", 1, FALSE)),
      Entry(<< >>, Href("abs", "site", 2, FALSE)),
      Entry(<<"A">>, Href("abs", "site", 3, TRUE)) }
\* what one GET of a feed or list page yields: None when the request fails
FeedOutcomes == {None} \cup {Some(f) : f \in UNION {[1..k -> Entries] : k \in 0..MaxFeedItems}}

\* str(httpx.URL(url).join(href))
HttpxJoin(h) == Href("abs", IF h.form = "rel" THEN "site" ELSE h.host, h.doc, h.nav)
\* _looks_like_article: http(s) scheme, the one domain, a dated .html path
LooksLikeArticle(u) == u.form = "abs" /\ u.host = "site" /\ ~u.nav

\* the item loop of _fetch_list_from_rss (joined = FALSE) and the link loop
\* of _fetch_list_from_html (joined = TRUE): entries without title or link
\* and links that do not look like articles are skipped; the loop is left
\* once len(items) >= limit
RECURSIVE ScanEntries(_, _, _, _)
ScanEntries(entries, items, lim, joined) ==
    IF entries = << >> THEN items
    ELSE LET e == Head(entries)
             u == IF joined THEN HttpxJoin(e.href) ELSE e.href
         IN  IF e.title = << >> \/ ~LooksLikeArticle(u)
             THEN ScanEntries(Tail(entries), items, lim, joined)
             ELSE LET items2 == Append(items, [title |-> e.title, url |-> u])
                  IN  IF Len(items2) >= lim THEN items2
                      ELSE ScanEntries(Tail(entries), items2, lim, joined)

\* the `seen` loop at the end of _fetch_list_from_html
RECURSIVE UniqByUrl(_, _)
UniqByUrl(items, uniq) ==
    IF items = << >> THEN uniq
    ELSE IF \E i \in 1..Len(uniq) : uniq[i].url = Head(items).url
         THEN UniqByUrl(Tail(items), uniq)
         ELSE UniqByUrl(Tail(items), Append(uniq, Head(items)))

InitAStock ==
    /\ PipeIdle /\ FunIdle
    /\ apc = "rss" /\ alimit \in Limits /\ asrc = 1
    /\ aitems = << >> /\ ahtml = 0 /\ aresult = << >>

\* one round of `for url in RSS_URLS`
RssFeed ==
    /\ apc = "rss" /\ asrc <= NumRssUrls
    /\ \E feed \in FeedOutcomes :
          LET items2 == IF feed = None THEN aitems
                        ELSE ScanEntries(feed[1], aitems, alimit, FALSE)
          IN  /\ aitems' = items2
              /\ asrc' = IF feed # None /\ Len(items2) >= alimit
                         THEN NumRssUrls + 1 ELSE asrc + 1
    /\ UNCHANGED <<apc, alimit, ahtml, aresult, pipeVars, funVars>>

\* `return items[:limit]` and fetch_list's `if items: return items`
RssReturn ==
    /\ apc = "rss" /\ asrc > NumRssUrls
    /\ IF Take(aitems, alimit) # << >>
       THEN /\ apc' = "done" /\ aresult' = Take(aitems, alimit)
            /\ UNCHANGED <<asrc, aitems>>
       ELSE /\ apc' = "html" /\ asrc' = 1 /\ aitems' = << >>
            /\ UNCHANGED aresult
    /\ UNCHANGED <<alimit, ahtml, pipeVars, funVars>>

\* one round of `for url in HTML_LIST_URLS`
HtmlPage ==
    /\ apc = "html" /\ asrc <= NumHtmlListUrls
    /\ \E pg \in FeedOutcomes :
          LET items2 == IF pg = None THEN aitems
                        ELSE ScanEntries(pg[1], aitems, alimit, TRUE)
          IN  /\ aitems' = items2
              /\ asrc' = IF pg # None /\ Len(items2) >= alimit
                         THEN NumHtmlListUrls + 1 ELSE asrc + 1
    /\ ahtml' = ahtml + 1
    /\ UNCHANGED <<apc, alimit, aresult, pipeVars, funVars>>

\* the dedupe, `return uniq[:limit]` and fetch_list's `return items`
HtmlReturn ==
    /\ apc = "html" /\ asrc > NumHtmlListUrls
    /\ apc' = "done"
    /\ aresult' = Take(UniqByUrl(aitems, << >>), alimit)
    /\ UNCHANGED <<alimit, asrc, aitems, ahtml, pipeVars, funVars>>

NextAStock == RssFeed \/ RssReturn \/ HtmlPage \/ HtmlReturn

SpecAStock == InitAStock /\ [][NextAStock]_vars

\* C7: no two records of the list a_stock_news stcn.fetch_list returns have
\* the same url, also when the items come from the RSS feeds and a link
\* appears in two feeds or twice in one feed.
C7_NoDuplicateUrls ==
    apc = "done" =>
        \A i, j \in 1..Len(aresult) : i # j => aresult[i].url # aresult[j].url

-----------------------------------------------------------------------------
(* eastmoney._try_get, one loop round at a time *)

RECURSIVE Pow(_, _)
Pow(b, e) == IF e = 0 THEN 1 ELSE b * Pow(b, e - 1)

\* a backoff factor as a fraction; 3/2 is the default backoff=1.5
Backoffs == {[num |-> 3, den |-> 2], [num |-> 2, den |-> 1], [num |-> 6, den |-> 1]}
MsPerSecond == 1000
SleepCeiling == 5

\* backoff ** i without the ceiling, in milliseconds
SleepMsUncapped(backoff, i) ==
    (Pow(backoff.num, i) * MsPerSecond) \div Pow(backoff.den, i)

\* sleep = backoff ** i; time.sleep(sleep if sleep < 5 else 5), in milliseconds
SleepMs(backoff, i) ==
    LET sleep == (Pow(backoff.num, i) * MsPerSecond) \div Pow(backoff.den, i)
    IN  IF sleep < SleepCeiling * MsPerSecond THEN sleep ELSE SleepCeiling * MsPerSecond

\* what the site answers to one GET: 0 is a timeout or connection error
Statuses == {0, 200, 404, 410, 500}

TryGetArgs ==
    [rs : [1..MaxRetries -> Statuses], retries : 0..MaxRetries, backoff : Backoffs]

InitTryGet ==
    /\ PipeIdle /\ AStockIdle
    /\ fop = "_try_get"
    /\ fin \in TryGetArgs
    /\ fout = [at |-> "loop", i |-> 0, gets |-> 0, sleeps |-> << >>,
               last_err |-> None, raised |-> None, returned |-> None]

\* one round of `for i in range(retries)`; an error is named by the attempt
\* that met it and the status it met
TryGetRound ==
    /\ fop = "_try_get" /\ fout.at = "loop" /\ fout.i < fin.retries
    /\ LET n == fout.gets + 1
           st == StatusAt(fin.rs, n)
           err == [attempt |-> n, status |-> st]
       IN  fout' =
             IF st # 0 /\ ~IsErrorStatus(st)
             THEN [fout EXCEPT !.at = "returned", !.gets = n, !.returned = Some(st)]
             ELSE IF st \in {404, 410}
             THEN [fout EXCEPT !.at = "raised", !.gets = n, !.raised = Some(err)]
             ELSE [fout EXCEPT !.gets = n, !.last_err = Some(err), !.i = @ + 1,
                               !.sleeps = Append(@, SleepMs(fin.backoff, fout.i))]
    /\ UNCHANGED <<fop, fin, pipeVars, astockVars>>

\* the loop is over: `assert last_err is not None; raise last_err`
TryGetGiveUp ==
    /\ fop = "_try_get" /\ fout.at = "loop" /\ fout.i >= fin.retries
    /\ fout' = [fout EXCEPT !.at = "raised",
                            !.raised = IF fout.last_err = None
                                       THEN Some([attempt |-> 0, status |-> 0])  \* AssertionError
                                       ELSE fout.last_err]
    /\ UNCHANGED <<fop, fin, pipeVars, astockVars>>

NextTryGet == TryGetRound \/ TryGetGiveUp

SpecTryGet == InitTryGet /\ [][NextTryGet]_vars

\* a failure that is retried: timeout, connection error, error status but 404/410
Transient(st) == st = 0 \/ (st >= 400 /\ st # 404 /\ st # 410)

\* C11: _try_get with retries >= 1 makes at most `retries` GETs; after the
\* i-th transient failure (i from 0) it waits min(backoff^i, 5) seconds, never
\* more than 5; it returns only a response with a success status; when every
\* attempt failed it raises the error of the last attempt.
C11_BoundedRetry ==
    (fop = "_try_get" /\ fin.retries >= 1) =>
        /\ fout.gets <= fin.retries
        /\ \A k \in 1..Len(fout.sleeps) :
              /\ Transient(StatusAt(fin.rs, k))
              /\ fout.sleeps[k] <= 5 * 1000
              /\ IF Pow(fin.backoff.num, k - 1) <= 5 * Pow(fin.backoff.den, k - 1)
                 THEN fout.sleeps[k]
                        = (1000 * Pow(fin.backoff.num, k - 1)) \div Pow(fin.backoff.den, k - 1)
                 ELSE fout.sleeps[k] = 5 * 1000
        /\ fout.at = "returned" =>
              /\ fout.returned = Some(StatusAt(fin.rs, fout.gets))
              /\ fout.returned[1] \in 200..299
        /\ fout.at = "raised" =>
              /\ fout.raised = Some([attempt |-> fout.gets, status |-> StatusAt(fin.rs, fout.gets)])
              /\ \A k \in 1..fout.gets : StatusAt(fin.rs, k) \notin 200..299

C11_Witness ==
    /\ fop = "_try_get" /\ fout.at = "raised" /\ fin.retries >= 2
    /\ fout.gets = fin.retries
    /\ fout.sleeps[Len(fout.sleeps)] = 5 * 1000

-----------------------------------------------------------------------------
(* _fetch_html_with_fallback of stcn and cs, one transport at a time *)

\* what a transport answers to its GET: status 0 stands for an exception
Answers == [status : {0, 200, 404, 500}, text : {<< >>, <<"A">>, <<"b">>}]

\* `r.status_code == 200` alone
UsableOnStatusAlone(ans) == ans.status = 200

\* `r.status_code == 200 and r.text`
Usable(ans) == ans.status = 200 /\ ans.text # << >>

InitFallback ==
    /\ PipeIdle /\ AStockIdle
    /\ fop \in {"stcn_fetch_html", "cs_fetch_html"}
    /\ fin \in [primary : Answers, fallback : Answers]
    /\ fout = [at |-> "httpx", httpx_gets |-> 0, requests_gets |-> 0, html |-> None]

\* 1) httpx: return r.text when usable; an exception is logged and swallowed
HttpxAttempt ==
    /\ fop \in {"stcn_fetch_html", "cs_fetch_html"} /\ fout.at = "httpx"
    /\ fout' = IF Usable(fin.primary)
               THEN [fout EXCEPT !.at = "returned", !.httpx_gets = @ + 1,
                                 !.html = Some(fin.primary.text)]
               ELSE [fout EXCEPT !.at = "requests", !.httpx_gets = @ + 1]
    /\ UNCHANGED <<fop, fin, pipeVars, astockVars>>

\* 2) requests.get(verify=False): return r.text when usable, else None
RequestsAttempt ==
    /\ fop \in {"stcn_fetch_html", "cs_fetch_html"} /\ fout.at = "requests"
    /\ fout' = [fout EXCEPT !.at = "returned", !.requests_gets = @ + 1,
                            !.html = IF Usable(fin.fallback)
                                     THEN Some(fin.fallback.text) ELSE None]
    /\ UNCHANGED <<fop, fin, pipeVars, astockVars>>

NextFallback == HttpxAttempt \/ RequestsAttempt

SpecFallback == InitFallback /\ [][NextFallback]_vars

PrimaryGood == fin.primary.status = 200 /\ fin.primary.text # << >>
FallbackGood == fin.fallback.status = 200 /\ fin.fallback.text # << >>

\* C12: in _fetch_html_with_fallback of stcn and cs the fallback transport is
\* tried at most once, and only after the httpx attempt failed to yield a 200
\* response with a non-empty body; a good primary answer is returned without
\* the fallback being touched; when both fail the function returns None.
C12_FallbackAtMostOnce ==
    fop \in {"stcn_fetch_html", "cs_fetch_html"} =>
        /\ fout.httpx_gets <= 1 /\ fout.requests_gets <= 1
        /\ fout.requests_gets = 1 => (fout.httpx_gets = 1 /\ ~PrimaryGood)
        /\ fout.at = "returned" =>
              IF PrimaryGood
              THEN fout.html = Some(fin.primary.text) /\ fout.requests_gets = 0
              ELSE /\ fout.requests_gets = 1
                   /\ fout.html = IF FallbackGood THEN Some(fin.fallback.text) ELSE None

C12_Witness ==
    /\ fop = "cs_fetch_html" /\ fout.at = "returned"
    /\ fin.primary.status = 200 /\ fin.primary.text = << >>
    /\ fout.requests_gets = 1 /\ fout.html = Some(<<"b">>)

-----------------------------------------------------------------------------
(* Failures of single items *)

\* the detail page of u is served at the first GET and yields a record that
\* carries a title and passes the filters
GoodItem(u) ==
    /\ StatusAt(page[u].resp, 1) = 200
    /\ page[u].title # << >>
    /\ RecentOk(src, Record(u, page[u]), sinceDays)
    /\ KeywordOk(src, Record(u, page[u]), keyword)
\* the detail page of u cannot be had: an error status at every attempt
FailedItem(u) == \A k \in 1..Len(page[u].resp) : page[u].resp[k] \in {404, 410, 500}

-----------------------------------------------------------------------------
(* The fallback from the RSS feeds to the HTML list pages *)

\* C14: a_stock_news stcn.fetch_list turns to the HTML list pages if and only
\* if the RSS feeds yielded no usable entry; when they yielded at least one,
\* no HTML page is fetched and the RSS entries are returned.
C14_HtmlIffRssEmpty ==
    [][(apc = "rss" /\ asrc > NumRssUrls) =>
          /\ (apc' = "html") <=> (aitems = << >>)
          /\ aitems # << >> =>
                (apc' = "done" /\ ahtml' = 0 /\ aresult' = Take(aitems, alimit))]_vars

-----------------------------------------------------------------------------
(* UnifiedNews crawler main: the export header *)

\* the field names records carry, in the order sorted() gives them
FieldNames == <<"pub_time", "site", "source", "summary", "title", "url">>
FieldNameSet == {FieldNames[i] : i \in 1..Len(FieldNames)}
\* sorted(keys)
SortedNames(keys) == LET In(k) == k \in keys IN SelectSeq(FieldNames, In)

\* a header that puts the title first and the site behind the publish time
PriorityTitleFirst == <<"title", "url", "pub_time", "site", "summary">>

\* priority = ["site", "title", "url", "pub_time", "summary"]
Priority == <<"site", "title", "url", "pub_time", "summary">>

\* _union_fieldnames(rows); a row is given by the set of its keys
UnionFieldnames(rs) ==
    LET keys == UNION {rs[i] : i \in 1..Len(rs)}
        InKeys(k) == k \in keys
        ordered == SelectSeq(Priority, InKeys)
        NotOrdered(k) == \A i \in 1..Len(ordered) : ordered[i] # k
        extra == SortedNames({k \in keys : NotOrdered(k)})
    IN  ordered \o extra

InitFieldnames ==
    /\ PipeIdle /\ AStockIdle
    /\ fop = "none" /\ fout = << >>
    /\ fin \in UNION {[1..k -> SUBSET FieldNameSet] : k \in 0..MaxRows}

ApplyUnionFieldnames == Apply("_union_fieldnames", UnionFieldnames(fin))

NextFieldnames == ApplyUnionFieldnames

SpecFieldnames == InitFieldnames /\ [][NextFieldnames]_vars

\* the place of a name in a header that lists the names of `first` in that
\* order and then all other names alphabetically
PlaceIn(first, name) ==
    IF \E i \in 1..Len(first) : first[i] = name
    THEN CHOOSE i \in 1..Len(first) : first[i] = name
    ELSE Len(first) + (CHOOSE i \in 1..Len(FieldNames) : FieldNames[i] = name)
\* the header lists every field name of any row exactly once, ordered by place
HeaderOrderedBy(first) ==
    /\ {fout[i] : i \in 1..Len(fout)} = UNION {fin[i] : i \in 1..Len(fin)}
    /\ \A i, j \in 1..Len(fout) : i < j => PlaceIn(first, fout[i]) < PlaceIn(first, fout[j])

\* C15 as stated: the header lists every field name of any record exactly
\* once: first the canonical fields present, in the order title, url, publish
\* time, source, summary, then all remaining names alphabetically.
C15_TitleFirstHeader ==
    fop = "_union_fieldnames" =>
        HeaderOrderedBy(<<"title", "url", "pub_time", "site", "summary">>)

\* C15 as amended: the header lists every field name of any record exactly
\* once: first those of site, title, url, pub_time, summary that are present,
\* in that order, then all remaining names alphabetically.
C15_SiteFirstHeader ==
    fop = "_union_fieldnames" =>
        HeaderOrderedBy(<<"site", "title", "url", "pub_time", "summary">>)

C15_Witness ==
    /\ fop = "_union_fieldnames"
    /\ fout = <<"site", "title", "url", "source">>

-----------------------------------------------------------------------------
(* UnifiedNews crawler main: main, run_source, dump_csv, _write_csv *)

\* requested file names, as sequences of characters
FileNames ==
    { <<"n">>, <<"n", ".", "c">>, <<".", "n">>, <<"n", ".">>,
      <<"n", ".", "c", ".", "g">> }

\* os.path.splitext on a file name: the extension starts at the last period,
\* unless only periods stand before it
SplitExt(name) ==
    LET dots == {i \in 1..Len(name) : name[i] = "." /\ \E j \in 1..(i - 1) : name[j] # "."}
    IN  IF dots = {} THEN [base |-> name, ext |-> << >>]
        ELSE LET i == CHOOSE k \in dots : \A l \in dots : l <= k
             IN  [base |-> SubSeq(name, 1, i - 1), ext |-> SubSeq(name, i, Len(name))]

\* dt.datetime.now().strftime("%Y%m%d_%H%M%S")
Stamp == <<"T">>
DotCsv == <<".", "c", "s", "v">>

\* the time stamp put behind the whole name
AltPathAppended(out_path) == out_path \o <<"_">> \o Stamp

\* alt_path = f"{base}_{ts}{ext or '.csv'}"
AltPath(out_path) ==
    LET p == SplitExt(out_path)
    IN  p.base \o <<"_">> \o Stamp \o (IF p.ext = << >> THEN DotCsv ELSE p.ext)

\* what happens to one _write_csv call: no error, or an error of some kind
\* after `written` rows went out (-1: open() itself fails)
NoFailure == [kind |-> "none", written |-> 0]
Plans ==
    {NoFailure} \cup [kind : {"PermissionError", "OSError"}, written : (-1)..(MaxRows - 1)]

\* the file as _write_csv leaves it
Untouched == [state |-> "untouched", rows |-> 0]
\* _write_csv(path, rows, fieldnames) with n rows under a plan: open(path, "w")
\* empties the file, the header and the rows follow one by one, and an error
\* leaves what was written so far
WriteCsv(n, plan) ==
    IF plan.kind = "none" \/ plan.written >= n
    THEN [file |-> [state |-> "complete", rows |-> n], error |-> None]
    ELSE IF plan.written = -1
         THEN [file |-> Untouched, error |-> Some(plan.kind)]
         ELSE [file |-> [state |-> "partial", rows |-> plan.written], error |-> Some(plan.kind)]

\* a process that always ends with status 0
ExitStatusAlwaysZero(error) == 0

\* sys.exit(main(...)): 0 when main returns 0, 1 when an exception escapes
ExitStatus(error) == IF error = None THEN 0 ELSE 1

ExportArgs ==
    [fetch_error : BOOLEAN, nrows : 0..MaxRows, out : FileNames,
     first : Plans, second : Plans]

InitExport ==
    /\ PipeIdle /\ AStockIdle
    /\ fop = "crawler_main"
    /\ fin \in ExportArgs
    /\ fout = [at |-> "run_source", requested |-> Untouched, alternate |-> Untouched,
               alt_path |-> None, writes |-> 0, error |-> None,
               log |-> <<"info">>, exit |-> None]

\* run_source: _call_fetch_list, then dump_csv up to `if not rows: return`
FetchRows ==
    /\ fop = "crawler_main" /\ fout.at = "run_source"
    /\ fout' = IF fin.fetch_error
               THEN [fout EXCEPT !.at = "raised", !.error = Some("RuntimeError")]
               ELSE IF fin.nrows = 0
               THEN [fout EXCEPT !.at = "returned", !.log = Append(@, "warning")]
               ELSE [fout EXCEPT !.at = "write"]
    /\ UNCHANGED <<fop, fin, pipeVars, astockVars>>

\* dump_csv: the write to out_path and `except PermissionError`
WriteRequested ==
    /\ fop = "crawler_main" /\ fout.at = "write"
    /\ LET w == WriteCsv(fin.nrows, fin.first)
       IN  fout' =
             IF w.error = None
             THEN [fout EXCEPT !.at = "returned", !.requested = w.file,
                               !.writes = @ + 1, !.log = Append(@, "success")]
             ELSE IF w.error = Some("PermissionError")
             THEN [fout EXCEPT !.at = "retry", !.requested = w.file, !.writes = @ + 1,
                               !.alt_path = Some(AltPath(fin.out)),
                               !.log = Append(@, "warning")]
             ELSE [fout EXCEPT !.at = "raised", !.requested = w.file, !.writes = @ + 1,
                               !.error = w.error]
    /\ UNCHANGED <<fop, fin, pipeVars, astockVars>>

\* dump_csv: the write to alt_path inside the except block
WriteAlternate ==
    /\ fop = "crawler_main" /\ fout.at = "retry"
    /\ LET w == WriteCsv(fin.nrows, fin.second)
       IN  fout' =
             IF w.error = None
             THEN [fout EXCEPT !.at = "returned", !.alternate = w.file,
                               !.writes = @ + 1, !.log = Append(@, "success")]
             ELSE [fout EXCEPT !.at = "raised", !.alternate = w.file, !.writes = @ + 1,
                               !.error = w.error]
    /\ UNCHANGED <<fop, fin, pipeVars, astockVars>>

\* main: `except Exception as e: logger.error(str(e)); raise`
MainLogsError ==
    /\ fop = "crawler_main" /\ fout.at = "raised"
    /\ fout' = [fout EXCEPT !.at = "reraised", !.log = Append(@, "error")]
    /\ UNCHANGED <<fop, fin, pipeVars, astockVars>>

\* the process ends: `return 0` through sys.exit, or the escaped exception
ProcessExit ==
    /\ fop = "crawler_main" /\ fout.at \in {"returned", "reraised"}
    /\ fout' = [fout EXCEPT !.at = "exited", !.exit = Some(ExitStatus(fout.error))]
    /\ UNCHANGED <<fop, fin, pipeVars, astockVars>>

NextExport ==
    FetchRows \/ WriteRequested \/ WriteAlternate \/ MainLogsError \/ ProcessExit

SpecExport == InitExport /\ [][NextExport]_vars

\* the write under this plan fails
Fails(plan) == plan.kind # "none" /\ plan.written < fin.nrows
\* dump_csv has rows to write
Writes == ~fin.fetch_error /\ fin.nrows >= 1
\* dump_csv is over, by return or by an exception
DumpOver == fout.at \in {"returned", "raised", "reraised", "exited"}

\* how dump_csv retries, with the alternate path left open
RetriesOnceOnPermissionError ==
    /\ fout.writes <= 2
    /\ fout.writes = 2 => (Fails(fin.first) /\ fin.first.kind = "PermissionError")
    /\ (Writes /\ DumpOver) =>
          IF ~Fails(fin.first)
          THEN fout.writes = 1 /\ fout.error = None
          ELSE IF fin.first.kind # "PermissionError"
          THEN fout.writes = 1 /\ fout.error = Some(fin.first.kind)
          ELSE /\ fout.writes = 2
               /\ fout.error = IF Fails(fin.second) THEN Some(fin.second.kind) ELSE None

\* C16 as stated: on a PermissionError while writing the requested path
\* dump_csv retries exactly once, against the path made by inserting a time
\* stamp suffix before the extension of the requested name; a failure of
\* that second write propagates; any other error of the first write
\* propagates without a retry.
C16_RetryWithStampBeforeExt ==
    fop = "crawler_main" =>
        /\ RetriesOnceOnPermissionError
        /\ fout.alt_path # None =>
              fout.alt_path = Some(SplitExt(fin.out).base \o <<"_">> \o Stamp
                                       \o SplitExt(fin.out).ext)

\* C16 as amended: as stated, and when the requested name has no extension
\* the alternate path is the name, the time stamp suffix and ".csv".
C16_RetryWithStampAndCsv ==
    fop = "crawler_main" =>
        /\ RetriesOnceOnPermissionError
        /\ fout.alt_path # None =>
              fout.alt_path =
                 Some(SplitExt(fin.out).base \o <<"_">> \o Stamp
                        \o (IF SplitExt(fin.out).ext = << >>
                            THEN <<".", "c", "s", "v">> ELSE SplitExt(fin.out).ext))

C16_Witness ==
    /\ fop = "crawler_main" /\ fout.at = "exited"
    /\ fin.out = <<"n">> /\ fout.alt_path = Some(<<"n", "_", "T", ".", "c", "s", "v">>)
    /\ fout.writes = 2 /\ fout.error = Some("OSError")

\* C18: when a run ends with an exception, the requested output path never
\* holds a partially written file: it is untouched or holds every row.
C18_NoPartialFile ==
    (fop = "crawler_main" /\ fout.at = "exited" /\ fout.error # None) =>
        fout.requested.state \in {"untouched", "complete"}

\* run_source ends with an exception
RunSourceRaises ==
    \/ fin.fetch_error
    \/ /\ fin.nrows >= 1 /\ Fails(fin.first)
       /\ fin.first.kind = "PermissionError" => Fails(fin.second)

\* C19: main ends with status 0 exactly when run_source completed without
\* an exception (zero rows included, and then no file is written); when
\* run_source raises, the error is logged before the process ends, with a
\* non-zero status.
C19_ExitStatus ==
    (fop = "crawler_main" /\ fout.at = "exited") =>
        /\ (fout.exit = Some(0)) <=> ~RunSourceRaises
        /\ RunSourceRaises =>
              (fout.exit # Some(0) /\ \E i \in 1..Len(fout.log) : fout.log[i] = "error")
        /\ (~fin.fetch_error /\ fin.nrows = 0) =>
              (fout.exit = Some(0) /\ fout.writes = 0 /\ fout.requested = Untouched)

C19_Witness ==
    /\ fop = "crawler_main" /\ fout.at = "exited"
    /\ fin.nrows >= 1 /\ ~fin.fetch_error
    /\ fout.exit = Some(1) /\ fout.log[Len(fout.log)] = "error"

-----------------------------------------------------------------------------
(* Export to CSV (_write_csv) and reading back (csv_to_readable_html.run) *)

Quote == "\""
Comma == ","
LF == "\n"
CR == "\r"
Space == " "
\* the byte order mark of the utf-8-sig encoding
BOM == "BOM"

\* field names as they stand in the file
NameChars(name) ==
    CASE name = "url" -> <<"u", "r", "l">>
      [] name = "title" -> <<"t", "i", "t", "l", "e">>
      [] OTHER -> <<name>>

\* url values a record may carry
UrlValues ==
    { << >>, <<"u">>, <<"u", Comma, "v">>, <<Quote>>, <<"u", Quote, Quote, "v">>,
      <<"u", LF, "v">>, <<"u", CR, LF, "v">>, <<"u", Space, "v">>,
      <<Space, "u">>, <<"u", LF>> }
\* records: a url, and a title or none
ExportRecords ==
    [keys : {{"url"}}, url : UrlValues, title : {<< >>}]
        \cup [keys : {{"title", "url"}}, url : UrlValues, title : {<<"t">>, <<Comma, Quote>>}]

\* a writer that never quotes
NeedsQuoteNever(v, only) == FALSE

\* csv.writer, QUOTE_MINIMAL: a field is quoted when it holds the delimiter,
\* the quote character, CR or LF, or is the empty only field of its row
NeedsQuote(v, only) ==
    \/ v = << >> /\ only
    \/ \E i \in 1..Len(v) : v[i] \in {Comma, Quote, CR, LF}

\* doublequote=True: a quote character inside a quoted field is written twice
RECURSIVE DoubleQuotes(_)
DoubleQuotes(v) ==
    IF v = << >> THEN << >>
    ELSE (IF Head(v) = Quote THEN <<Quote, Quote>> ELSE <<Head(v)>>) \o DoubleQuotes(Tail(v))

WriteField(v, only) ==
    IF NeedsQuote(v, only) THEN <<Quote>> \o DoubleQuotes(v) \o <<Quote>> ELSE v

RECURSIVE JoinFields(_, _)
JoinFields(fields, only) ==
    IF fields = << >> THEN << >>
    ELSE IF Len(fields) = 1 THEN WriteField(fields[1], only)
    ELSE WriteField(fields[1], only) \o <<Comma>> \o JoinFields(Tail(fields), only)

\* writer.writerow: the fields joined by commas, then the line terminator
WriteRow(fields) == JoinFields(fields, Len(fields) = 1) \o <<CR, LF>>

\* DictWriter.writerow(r): the values in header order, "" for a missing key
RowValues(rec, fieldnames) ==
    [i \in 1..Len(fieldnames) |->
        IF fieldnames[i] \in rec.keys THEN rec[fieldnames[i]] ELSE << >>]

\* _write_csv: encoding utf-8-sig, the header, then a line per row
WriteCsvFile(recs, fieldnames) ==
    <<BOM>> \o WriteRow([i \in 1..Len(fieldnames) |-> NameChars(fieldnames[i])])
            \o ConcatAll([i \in 1..Len(recs) |-> WriteRow(RowValues(recs[i], fieldnames))])

\* open(..., encoding="utf-8-sig"): a leading byte order mark is dropped
DecodeSig(file) == IF file # << >> /\ Head(file) = BOM THEN Tail(file) ELSE file

\* csv.reader over a file opened with newline="": the parser's states, a
\* character at a time; a record ends at CR, LF or CR LF outside quotes
RECURSIVE ParseFrom(_, _, _, _, _)
ParseFrom(cs, st, field, row, out) ==
    IF cs = << >>
    THEN IF st \in {"START_RECORD", "AFTER_CR"} THEN out
         ELSE Append(out, Append(row, field))
    ELSE
      LET c == Head(cs)
          rest == Tail(cs)
          eol == c \in {CR, LF}
          after == IF c = CR THEN "AFTER_CR" ELSE "START_RECORD"
      IN  CASE st = "AFTER_CR" ->
                 IF c = LF THEN ParseFrom(rest, "START_RECORD", << >>, << >>, out)
                 ELSE ParseFrom(cs, "START_RECORD", << >>, << >>, out)
            [] st = "START_RECORD" ->
                 IF eol THEN ParseFrom(rest, after, << >>, << >>, Append(out, << >>))
                 ELSE ParseFrom(cs, "START_FIELD", << >>, << >>, out)
            [] st = "START_FIELD" ->
                 IF eol THEN ParseFrom(rest, after, << >>, << >>, Append(out, Append(row, << >>)))
                 ELSE IF c = Quote THEN ParseFrom(rest, "IN_QUOTED_FIELD", << >>, row, out)
                 ELSE IF c = Comma THEN ParseFrom(rest, "START_FIELD", << >>, Append(row, << >>), out)
                 ELSE ParseFrom(rest, "IN_FIELD", <<c>>, row, out)
            [] st = "IN_FIELD" ->
                 IF eol THEN ParseFrom(rest, after, << >>, << >>, Append(out, Append(row, field)))
                 ELSE IF c = Comma THEN ParseFrom(rest, "START_FIELD", << >>, Append(row, field), out)
                 ELSE ParseFrom(rest, "IN_FIELD", Append(field, c), row, out)
            [] st = "IN_QUOTED_FIELD" ->
                 IF c = Quote THEN ParseFrom(rest, "QUOTE_IN_QUOTED_FIELD", field, row, out)
                 ELSE ParseFrom(rest, "IN_QUOTED_FIELD", Append(field, c), row, out)
            [] OTHER -> \* QUOTE_IN_QUOTED_FIELD
                 IF c = Quote THEN ParseFrom(rest, "IN_QUOTED_FIELD", Append(field, Quote), row, out)
                 ELSE IF c = Comma THEN ParseFrom(rest, "START_FIELD", << >>, Append(row, field), out)
                 ELSE IF eol THEN ParseFrom(rest, after, << >>, << >>, Append(out, Append(row, field)))
                 ELSE ParseFrom(rest, "IN_FIELD", Append(field, c), row, out)

CsvReader(text) == ParseFrom(text, "START_RECORD", << >>, << >>, << >>)

\* csv.DictReader: the first row names the fields, rows without any field
\* are skipped, each other row is matched to the names by position
DictReaderRows(file) ==
    LET all == CsvReader(DecodeSig(file))
    IN  IF all = << >> THEN [fieldnames |-> << >>, rows |-> << >>]
        ELSE [fieldnames |-> all[1],
              rows |-> SelectSeq(Tail(all), LAMBDA r : r # << >>)]

\* raw.get(name): the value under a field name, None when the row has none
RawGet(fieldnames, row, name) ==
    LET at == {i \in 1..Len(fieldnames) : fieldnames[i] = name /\ i <= Len(row)}
    IN  IF at = {} THEN None ELSE Some(row[CHOOSE i \in at : \A j \in at : j <= i])

IsSpace(c) == c \in {Space, LF, CR}

\* str.strip(): leading and trailing whitespace removed
RECURSIVE LStrip(_)
LStrip(v) == IF v # << >> /\ IsSpace(Head(v)) THEN LStrip(Tail(v)) ELSE v
RECURSIVE RStrip(_)
RStrip(v) == IF v # << >> /\ IsSpace(v[Len(v)]) THEN RStrip(SubSeq(v, 1, Len(v) - 1)) ELSE v
Strip(v) == RStrip(LStrip(v))

\* run: the url of a rendered row, (raw.get(colmap["url"]) or pick(raw, "url")).strip()
\* with the default column name; pick looks the same column up again
RowUrl(fieldnames, row) ==
    LET got == RawGet(fieldnames, row, NameChars("url"))
        picked == IF got = None THEN << >> ELSE Strip(got[1])
    IN  Strip(IF got # None /\ got[1] # << >> THEN got[1] ELSE picked)

\* the urls the renderer holds after reading the exporter's file
ReadUrls(file) ==
    LET d == DictReaderRows(file)
    IN  [i \in 1..Len(d.rows) |-> RowUrl(d.fieldnames, d.rows[i])]

ExportThenRead(recs) ==
    ReadUrls(WriteCsvFile(recs, UnionFieldnames([i \in 1..Len(recs) |-> recs[i].keys])))

InitRoundTrip ==
    /\ PipeIdle /\ AStockIdle
    /\ fop = "none"
    /\ fin \in UNION {[1..n -> ExportRecords] : n \in 1..MaxRecords}
    /\ fout = << >>

ApplyExportThenRead == Apply("export_then_read", ExportThenRead(fin))

NextRoundTrip == ApplyExportThenRead

SpecRoundTrip == InitRoundTrip /\ [][NextRoundTrip]_vars

\* C17 (as stated): exporting N records and reading the file back yields N rows
\* whose url values equal the records' url values, in the same order.
C17_UrlRoundTrip ==
    fop = "export_then_read" =>
        /\ Len(fout) = Len(fin)
        /\ \A i \in 1..Len(fin) : fout[i] = fin[i].url

\* t is v without its leading and trailing whitespace
TrimOf(v, t) ==
    /\ \E a \in 0..Len(v) : \E b \in a..Len(v) :
          /\ t = SubSeq(v, a + 1, b)
          /\ \A i \in (1..a) \cup ((b + 1)..Len(v)) : IsSpace(v[i])
    /\ t # << >> => ~IsSpace(t[1]) /\ ~IsSpace(t[Len(t)])

\* C17 (amended): exporting N records and reading the file back yields N rows
\* whose url values are the records' url values with leading and trailing
\* whitespace removed, in the same order.
C17_TrimmedUrlRoundTrip ==
    fop = "export_then_read" =>
        /\ Len(fout) = Len(fin)
        /\ \A i \in 1..Len(fin) : TrimOf(fin[i].url, fout[i])

\* two records were exported and read back, one url needing quotes for its
\* line break, the other for its quote characters
C17_Witness ==
    /\ fop = "export_then_read"
    /\ Len(fin) = 2
    /\ fin[1].url = <<"u", CR, LF, "v">> /\ fout[1] = fin[1].url
    /\ fin[2].url = <<"u", Quote, Quote, "v">> /\ fout[2] = fin[2].url
    /\ fin[2].title = <<Comma, Quote>>

-----------------------------------------------------------------------------
(* The article-link predicates on URL strings *)

\* the characters of the pieces the URLs below are made of
Spell(piece) ==
    CASE piece = "https://" -> <<"h", "t", "t", "p", "s", ":", "/", "/">>
      [] piece = "http://" -> <<"h", "t", "t", "p", ":", "/", "/">>
      [] piece = "eastmoney.com" -> <<"e", "a", "s", "t", "m", "o", "n", "e", "y", ".", "c", "o", "m">>
      [] piece = "www.stcn.com" -> <<"w", "w", "w", ".", "s", "t", "c", "n", ".", "c", "o", "m">>
      [] piece = "kuaixun.stcn.com" -> <<"k", "u", "a", "i", "x", "u", "n", ".", "s", "t", "c", "n", ".", "c", "o", "m">>
      [] piece = "EASTMONEY.COM" -> <<"E", "A", "S", "T", "M", "O", "N", "E", "Y", ".", "C", "O", "M">>
      [] piece = "WWW.STCN.COM" -> <<"W", "W", "W", ".", "S", "T", "C", "N", ".", "C", "O", "M">>
      [] piece = "KUAIXUN.STCN.COM" -> <<"K", "U", "A", "I", "X", "U", "N", ".", "S", "T", "C", "N", ".", "C", "O", "M">>
      [] piece = "finance." -> <<"f", "i", "n", "a", "n", "c", "e", ".">>
      [] piece = "evil" -> <<"e", "v", "i", "l">>
      [] piece = ".org" -> <<".", "o", "r", "g">>
      [] piece = "/" -> <<"/">>
      [] piece = "2024" -> <<"2", "0", "2", "4">>
      [] piece = "-" -> <<"-">>
      [] piece = "01" -> <<"0", "1">>
      [] piece = "02" -> <<"0", "2">>
      [] piece = "c1" -> <<"c", "1">>
      [] piece = ".html" -> <<".", "h", "t", "m", "l">>
      [] piece = ".shtml" -> <<".", "s", "h", "t", "m", "l">>
      [] piece = "a" -> <<"a">>
      [] piece = "index" -> <<"i", "n", "d", "e", "x">>
      [] piece = "kuaixun" -> <<"k", "u", "a", "i", "x", "u", "n">>
      [] piece = "?" -> <<"?">>
      [] piece = "from=" -> <<"f", "r", "o", "m", "=">>
      [] piece = "stcn.com" -> <<"s", "t", "c", "n", ".", "c", "o", "m">>
      [] piece = "13" -> <<"1", "3">>
      [] piece = "sina.com.cn" -> <<"s", "i", "n", "a", ".", "c", "o", "m", ".", "c", "n">>


SpellAll(pieces) == ConcatAll([i \in 1..Len(pieces) |-> Spell(pieces[i])])

UpperLetters == <<"A", "B", "C", "D", "E", "F", "G", "H", "I", "J", "K", "L", "M", "N", "O", "P", "Q", "R", "S", "T", "U", "V", "W", "X", "Y", "Z">>
LowerLetters == <<"a", "b", "c", "d", "e", "f", "g", "h", "i", "j", "k", "l", "m", "n", "o", "p", "q", "r", "s", "t", "u", "v", "w", "x", "y", "z">>
Digits == {"0", "1", "2", "3", "4", "5", "6", "7", "8", "9"}

\* str.lower() on the ASCII letters
LowerAsciiChar(c) ==
    IF \E i \in DOMAIN UpperLetters : UpperLetters[i] = c
    THEN LowerLetters[CHOOSE i \in DOMAIN UpperLetters : UpperLetters[i] = c]
    ELSE c
LowerAscii(s) == [i \in 1..Len(s) |-> LowerAsciiChar(s[i])]

\* the character at a position, nothing beyond the end
CharAt(s, i) == IF i \in 1..Len(s) THEN s[i] ELSE ""
StartsWith(s, p) == Len(p) <= Len(s) /\ SubSeq(s, 1, Len(p)) = p
EndsWith(s, p) == Len(p) <= Len(s) /\ SubSeq(s, Len(s) - Len(p) + 1, Len(s)) = p
\* the first position from `from` on that holds one of the characters, or one past the end
FirstOf(s, set, from) ==
    LET at == {i \in from..Len(s) : s[i] \in set}
    IN  IF at = {} THEN Len(s) + 1 ELSE CHOOSE i \in at : \A j \in at : i <= j

\* urllib.parse.urlparse: the scheme before the first colon, the netloc
\* between "//" and the next "/", "?" or "#", the path up to "?" or "#"
Urlparse(href) ==
    LET SchemeChars == {UpperLetters[i] : i \in DOMAIN UpperLetters}
                           \cup {LowerLetters[i] : i \in DOMAIN LowerLetters}
                           \cup Digits \cup {"+", "-", "."}
        colon == FirstOf(href, {":"}, 1)
        hasScheme == /\ colon \in 2..Len(href)
                     /\ href[1] \notin Digits \cup {"+", "-", "."}
                     /\ \A i \in 1..(colon - 1) : href[i] \in SchemeChars
        rest1 == IF hasScheme THEN SubSeq(href, colon + 1, Len(href)) ELSE href
        hasNetloc == StartsWith(rest1, <<"/", "/">>)
        stop == FirstOf(rest1, {"/", "?", "#"}, 3)
        rest2 == IF hasNetloc THEN SubSeq(rest1, stop, Len(rest1)) ELSE rest1
    IN  [scheme |-> IF hasScheme THEN LowerAscii(SubSeq(href, 1, colon - 1)) ELSE << >>,
         netloc |-> IF hasNetloc THEN SubSeq(rest1, 3, stop - 1) ELSE << >>,
         path |-> SubSeq(rest2, 1, FirstOf(rest2, {"?", "#"}, 1) - 1)]

\* re.search(r"/20\d{2}[-/]?\d{1,2}[-/]?\d{1,2}", url) is not None
EmDateRe(url) ==
    \E i \in 1..Len(url) : \E s1 \in {0, 1} : \E n1 \in {1, 2} : \E s2 \in {0, 1} : \E n2 \in {1, 2} :
        LET p == i + 5
            q == p + s1 + n1
        IN  /\ CharAt(url, i) = "/" /\ CharAt(url, i + 1) = "2" /\ CharAt(url, i + 2) = "0"
            /\ CharAt(url, i + 3) \in Digits /\ CharAt(url, i + 4) \in Digits
            /\ s1 = 1 => CharAt(url, p) \in {"-", "/"}
            /\ \A k \in 0..(n1 - 1) : CharAt(url, p + s1 + k) \in Digits
            /\ s2 = 1 => CharAt(url, q) \in {"-", "/"}
            /\ \A k \in 0..(n2 - 1) : CharAt(url, q + s2 + k) \in Digits

\* eastmoney _is_article_like, on the URL string
EmIsArticleLikeStr(url) ==
    /\ Contains(Spell("eastmoney.com"), url)
    /\ \/ Contains(<<"/", "a", "/">>, url)
       \/ EmDateRe(url)
       \/ EndsWith(url, Spell(".html"))

STCN_HOST == Spell("www.stcn.com")
\* bad = ("index.html", "/kuaixun/index", "/kuaixun/index.shtml")
StcnBad ==
    { SpellAll(<<"index", ".html">>), SpellAll(<<"/", "kuaixun", "/", "index">>),
      SpellAll(<<"/", "kuaixun", "/", "index", ".shtml">>) }

\* UnifiedNews stcn _is_article_like, on the URL string
StcnIsArticleLikeStr(href) ==
    /\ href # << >>
    /\ LET u == Urlparse(href)
       IN  ~(u.netloc # << >> /\ ~Contains(STCN_HOST, u.netloc))
    /\ EndsWith(LowerAscii(href), Spell(".html"))
    /\ ~\E b \in StcnBad : Contains(b, href)

ONLY_DOMAIN == Spell("kuaixun.stcn.com")
\* re.search(r"/20\d{2}(-|/|_)\d{2}([-/]\d{2})?", path)
LooksDatedDashed(path) ==
    \E i \in 1..Len(path) :
        /\ CharAt(path, i) = "/" /\ CharAt(path, i + 1) = "2" /\ CharAt(path, i + 2) = "0"
        /\ CharAt(path, i + 3) \in Digits /\ CharAt(path, i + 4) \in Digits
        /\ CharAt(path, i + 5) \in {"-", "/", "_"}
        /\ CharAt(path, i + 6) \in Digits /\ CharAt(path, i + 7) \in Digits
\* re.search(r"/20\d{2}(0[1-9]|1[0-2])(\d{2})?/", path)
LooksDatedCompact(path) ==
    \E i \in 1..Len(path) :
        /\ CharAt(path, i) = "/" /\ CharAt(path, i + 1) = "2" /\ CharAt(path, i + 2) = "0"
        /\ CharAt(path, i + 3) \in Digits /\ CharAt(path, i + 4) \in Digits
        /\ \/ CharAt(path, i + 5) = "0" /\ CharAt(path, i + 6) \in Digits \ {"0"}
           \/ CharAt(path, i + 5) = "1" /\ CharAt(path, i + 6) \in {"0", "1", "2"}
        /\ \/ CharAt(path, i + 7) = "/"
           \/ /\ CharAt(path, i + 7) \in Digits /\ CharAt(path, i + 8) \in Digits
              /\ CharAt(path, i + 9) = "/"

\* a_stock_news stcn _looks_like_article, on the URL string
LooksLikeArticleStr(href) ==
    LET u == Urlparse(href)
        host == LowerAscii(u.netloc)
        path == LowerAscii(u.path)
    IN  /\ StartsWith(u.scheme, <<"h", "t", "t", "p">>)
        /\ host = ONLY_DOMAIN
        /\ EndsWith(path, Spell(".shtml")) \/ EndsWith(path, Spell(".html"))
        /\ LooksDatedDashed(path) \/ LooksDatedCompact(path)

LinkSources == {"eastmoney", "stcn", "a_stock_news"}
\* the domain a source's links are expected on
ExpectedDomain(site) ==
    CASE site = "eastmoney" -> "eastmoney.com"
      [] site = "stcn" -> "www.stcn.com"
      [] OTHER -> "kuaixun.stcn.com"
UpperDomain(site) ==
    CASE site = "eastmoney" -> "EASTMONEY.COM"
      [] site = "stcn" -> "WWW.STCN.COM"
      [] OTHER -> "KUAIXUN.STCN.COM"

\* hosts: the domain, a subdomain, the domain in capitals, and foreign hosts
\* that begin with, end with, or do not hold the domain's name
LinkHosts(site) ==
    LET d == ExpectedDomain(site)
    IN  { <<d>>, <<"finance.", d>>, <<UpperDomain(site)>>,
          <<d, ".org">>, <<"evil", d>>, <<"evil", ".org">> }
\* paths and queries: dated articles, an article marker, index pages, the
\* domain's name as a path segment and as a query value
LinkPaths(site) ==
    LET d == ExpectedDomain(site)
    IN  { <<"/", "2024", "-", "01", "-", "02", "/", "c1", ".html">>,
          <<"/", "2024", "01", "02", "/", "c1", ".shtml">>,
          <<"/", "a", "/", "c1", ".html">>,
          <<"/", "kuaixun", "/", "index", ".html">>,
          <<"/">>,
          <<"/", d, "/", "2024", "-", "01", "-", "02", "/", "c1", ".html">>,
          <<"/", "2024", "-", "01", "-", "02", "/", "c1">>,
          <<"/", "a", "/", "c1", ".html", "?", "from=", d>> }
\* absolute URLs, and hrefs that are only a path
LinkArgs ==
    UNION { [src : {s}, scheme : {<<"https://">>, <<"http://">>}, host : LinkHosts(s), path : LinkPaths(s)]
                \cup [src : {s}, scheme : {<< >>}, host : {<< >>}, path : LinkPaths(s)]
            : s \in LinkSources }
HrefOf(a) == SpellAll(a.scheme \o a.host \o a.path)

InitLinks ==
    /\ PipeIdle /\ AStockIdle
    /\ fop = "none" /\ fout = << >>
    /\ fin \in LinkArgs

ApplyEmIsArticleLike ==
    fin.src = "eastmoney" /\ Apply("em_is_article_like", EmIsArticleLikeStr(HrefOf(fin)))
ApplyStcnIsArticleLike ==
    fin.src = "stcn" /\ Apply("stcn_is_article_like", StcnIsArticleLikeStr(HrefOf(fin)))
ApplyLooksLikeArticle ==
    fin.src = "a_stock_news" /\ Apply("looks_like_article", LooksLikeArticleStr(HrefOf(fin)))

NextLinks == ApplyEmIsArticleLike \/ ApplyStcnIsArticleLike \/ ApplyLooksLikeArticle

SpecLinks == InitLinks /\ [][NextLinks]_vars

AbsoluteUrl == fin.scheme # << >>
\* the URL's host is the expected domain or a subdomain of it (host names
\* compare without regard to case)
OnExpectedDomain ==
    LET h == LowerAscii(SpellAll(fin.host))
        d == Spell(ExpectedDomain(fin.src))
    IN  h = d \/ EndsWith(h, <<".">> \o d)
\* the path holds a date segment /20YY-MM-DD/ or /20YYMMDD/
DateStampedPath ==
    LET path == SpellAll(fin.path)
        D(i) == CharAt(path, i) \in Digits
    IN  \E i \in 1..Len(path) :
            /\ CharAt(path, i) = "/" /\ CharAt(path, i + 1) = "2" /\ CharAt(path, i + 2) = "0"
            /\ D(i + 3) /\ D(i + 4)
            /\ \/ /\ CharAt(path, i + 5) = "-" /\ D(i + 6) /\ D(i + 7)
                  /\ CharAt(path, i + 8) = "-" /\ D(i + 9) /\ D(i + 10)
                  /\ CharAt(path, i + 11) = "/"
               \/ /\ D(i + 5) /\ D(i + 6) /\ D(i + 7) /\ D(i + 8)
                  /\ CharAt(path, i + 9) = "/"
\* the URL's host is the one the source names: eastmoney.com or a subdomain
\* of it, www.stcn.com, kuaixun.stcn.com
OnExpectedHost ==
    IF fin.src = "eastmoney" THEN OnExpectedDomain
    ELSE LowerAscii(SpellAll(fin.host)) = Spell(ExpectedDomain(fin.src))
\* the path ends as the source's article pages do
ArticlePagePath ==
    LET Ends(ext) == EndsWith(SpellAll(fin.path), Spell(ext))
    IN  CASE fin.src = "eastmoney" -> TRUE
          [] fin.src = "stcn" -> Ends(".html")
          [] OTHER -> Ends(".html") \/ Ends(".shtml")

C20_ForeignHostRejected ==
    (fop # "none" /\ AbsoluteUrl /\ ~OnExpectedDomain) => fout = FALSE
C20_DateStampedAccepted ==
    (fop # "none" /\ AbsoluteUrl /\ OnExpectedHost /\ DateStampedPath /\ ArticlePagePath)
        => fout = TRUE

\* C20: every source's article-link predicate rejects every absolute URL whose
\* host is outside the source's expected domain, also when the domain's name
\* stands in the path or is a prefix or substring of the foreign host name,
\* and accepts every URL on the expected domain with a date-stamped article path.
C20_ArticleLinkPredicate == C20_ForeignHostRejected /\ C20_DateStampedAccepted

-----------------------------------------------------------------------------
(* Publish times: parsing and the zone they are read in *)

\* a timestamp text: the wall-clock time it spells and the zone it names, if
\* any, in hours east of UTC
StampZones == {None, Some(0), Some(CstOffset)}
StampTexts == [wall : TimesNearCutoff, zone : StampZones]
TimezoneArgs == [text : StampTexts, off : MachineOffsets, since : 0..MaxSinceDays]

\* datetime.astimezone(CN_TZ): an aware time is moved to UTC+8, a naive one is
\* first read on the clock of the machine (zone UTC+off)
AsTimezoneCst(wall, zone, off) ==
    wall - (IF zone = None THEN off ELSE zone[1]) * Hour + CstOffset * Hour

\* eastmoney _parse_dt: the regular expression takes year to second out of
\* the text and drops whatever zone follows; the datetime is naive
EmParseDt(text) == text.wall

\* UnifiedNews stcn _parse_dt_from_text: a naive result gets tzinfo UTC+8, an
\* aware one is moved to UTC+8
StcnParseDtFromText(text) ==
    IF text.zone = None THEN text.wall ELSE AsTimezoneCst(text.wall, text.zone, CstOffset)

\* a_stock_news stcn _parse_time: dtparser.parse, astimezone(CN_TZ), and the
\* result printed without its zone
ParseTime(text, off) == AsTimezoneCst(text.wall, text.zone, off)

InitTimezone ==
    /\ PipeIdle /\ AStockIdle
    /\ fop = "none" /\ fout = << >>
    /\ fin \in TimezoneArgs

\* eastmoney: pub_time of the record, compared with cutoff of fetch_list
ApplyEmParseDt ==
    Apply("em_parse_dt",
          [returned |-> EmParseDt(fin.text),
           compared |-> Some(EmParseDt(fin.text)),
           cutoff |-> EmCutoff(LocalNow(fin.off), fin.since)])
\* stcn: pub_dt of the record, compared with edge of fetch_list
ApplyStcnParseDt ==
    Apply("stcn_parse_dt",
          [returned |-> StcnParseDtFromText(fin.text),
           compared |-> Some(StcnParseDtFromText(fin.text)),
           cutoff |-> NowCst - fin.since * Day])
\* a_stock_news: published_at of fetch_detail, read again by main._to_dt and
\* compared with cutoff of _recent_enough
ApplyParseTime ==
    LET published_at == ParseTime(fin.text, fin.off)
    IN  Apply("parse_time",
              [returned |-> published_at,
               compared |-> ToDt(Some([iso |-> TRUE, wall |-> published_at]), fin.off),
               cutoff |-> NowCst - fin.since * Day])

NextTimezone == ApplyEmParseDt \/ ApplyStcnParseDt \/ ApplyParseTime

SpecTimezone == InitTimezone /\ [][NextTimezone]_vars

\* the time the text names, on the UTC+8 wall clock: a text without a zone is
\* in UTC+8 already
StampInCst ==
    IF fin.text.zone = None THEN fin.text.wall
    ELSE fin.text.wall - fin.text.zone[1] * Hour + CstOffset * Hour

\* C21: every publish time that is returned in a record or compared with the
\* recency cutoff is in UTC+8 whatever the machine's zone (a text without zone
\* is taken as UTC+8, one with a zone is converted), and the cutoff is the
\* current time in UTC+8 less since_days.
C21_FixedOffsetTimes ==
    fop # "none" =>
        /\ fout.returned = StampInCst
        /\ fout.compared = Some(StampInCst)
        /\ fout.cutoff = NowCst - fin.since * Day

-----------------------------------------------------------------------------
(* The proxy variables of the process environment *)

ProxyVars == {"HTTP_PROXY", "HTTPS_PROXY", "http_proxy", "https_proxy"}
EnvVars == ProxyVars \cup {"NO_PROXY"}
\* values of a variable: "" and a proxy the user configured
EmptyValue == << >>
UserProxy == <<"http://corp:3128">>
\* "http://127.0.0.1:7890", the proxy the crawlers fall back to
LocalProxy == <<"http://127.0.0.1:7890">>
\* a_stock_news stcn PROXY_URL
PROXY_URL == Some(LocalProxy)
\* os.environ at the start of the process: a variable is unset or set
Environments ==
    { e \in [EnvVars -> {None, Some(EmptyValue), Some(UserProxy)}] :
        e["NO_PROXY"] # Some(EmptyValue) }

\* os.environ.get(a) or os.environ.get(b)
GetOr(env, a, b) == IF Truthy(env[a]) THEN env[a] ELSE env[b]

\* eastmoney and ths _prepare_proxy_env: the variables are read and logged
ReadsProxyEnv(env) == env

\* UnifiedNews stcn and a_stock_news cs _prepare_proxy_env: without a
\* non-empty proxy in the four variables, the upper-case two are set
DefaultsProxyEnv(env) ==
    LET http_p == GetOr(env, "HTTP_PROXY", "http_proxy")
        https_p == GetOr(env, "HTTPS_PROXY", "https_proxy")
    IN  IF ~(Truthy(http_p) \/ Truthy(https_p))
        THEN [env EXCEPT !["HTTP_PROXY"] = Some(LocalProxy),
                         !["HTTPS_PROXY"] = Some(LocalProxy)]
        ELSE env

\* a_stock_news stcn _prepare_proxy_env: with PROXY_URL the upper-case two are
\* assigned and NO_PROXY gets a default; without it they are removed
ForcesProxyEnv(env) ==
    IF Truthy(PROXY_URL)
    THEN [env EXCEPT !["HTTP_PROXY"] = PROXY_URL,
                     !["HTTPS_PROXY"] = PROXY_URL,
                     !["NO_PROXY"] = IF @ = None THEN Some(<<"localhost,127.0.0.1">>) ELSE @]
    ELSE [env EXCEPT !["HTTP_PROXY"] = None, !["HTTPS_PROXY"] = None]

ClientSources == {"eastmoney", "ths", "stcn", "cs", "a_stock_stcn"}
PrepareProxyEnv(site, env) ==
    CASE site \in {"eastmoney", "ths"} -> ReadsProxyEnv(env)
      [] site \in {"stcn", "cs"} -> DefaultsProxyEnv(env)
      [] OTHER -> ForcesProxyEnv(env)

\* fin: the environment the process started with; fout: os.environ now;
\* fop: the source that built a client last
InitProxyEnv ==
    /\ PipeIdle /\ AStockIdle
    /\ fop = "none"
    /\ fin \in Environments
    /\ fout = fin

\* eastmoney fetch_list: _prepare_proxy_env, then _make_client
EmMakeClient ==
    /\ fop' = "eastmoney"
    /\ fout' = PrepareProxyEnv("eastmoney", fout)
    /\ UNCHANGED <<fin, pipeVars, astockVars>>
\* ths fetch_list: _prepare_proxy_env, then _make_client
ThsMakeClient ==
    /\ fop' = "ths"
    /\ fout' = PrepareProxyEnv("ths", fout)
    /\ UNCHANGED <<fin, pipeVars, astockVars>>
\* UnifiedNews stcn _make_client
StcnMakeClient ==
    /\ fop' = "stcn"
    /\ fout' = PrepareProxyEnv("stcn", fout)
    /\ UNCHANGED <<fin, pipeVars, astockVars>>
\* a_stock_news cs _make_client
CsMakeClient ==
    /\ fop' = "cs"
    /\ fout' = PrepareProxyEnv("cs", fout)
    /\ UNCHANGED <<fin, pipeVars, astockVars>>
\* a_stock_news stcn _make_client
AStockStcnMakeClient ==
    /\ fop' = "a_stock_stcn"
    /\ fout' = PrepareProxyEnv("a_stock_stcn", fout)
    /\ UNCHANGED <<fin, pipeVars, astockVars>>

NextProxyEnv ==
    EmMakeClient \/ ThsMakeClient \/ StcnMakeClient \/ CsMakeClient \/ AStockStcnMakeClient

SpecProxyEnv == InitProxyEnv /\ [][NextProxyEnv]_vars

ProxyConfigured(env) == \E v \in ProxyVars : env[v] # None

\* C22: when one of HTTP_PROXY, HTTPS_PROXY, http_proxy, https_proxy is set
\* before a client is built, building a client (any source) leaves the value
\* of every proxy variable as it was.
C22_ConfiguredProxyKept ==
    [][ProxyConfigured(fout) => \A v \in ProxyVars : fout'[v] = fout[v]]_vars

-----------------------------------------------------------------------------
(* The renderer reading the columns of an exported file *)

\* the characters of a column name
ColumnChars(name) ==
    CASE name = "url" -> <<"u", "r", "l">>
      [] name = "title" -> <<"t", "i", "t", "l", "e">>
      [] name = "pub_dt" -> <<"p", "u", "b", "_", "d", "t">>
      [] name = "content" -> <<"c", "o", "n", "t", "e", "n", "t">>
      [] name = "source" -> <<"s", "o", "u", "r", "c", "e">>
      [] name = "pub_time" -> <<"p", "u", "b", "_", "t", "i", "m", "e">>
      [] name = "summary" -> <<"s", "u", "m", "m", "a", "r", "y">>
      [] name = "category" -> <<"c", "a", "t", "e", "g", "o", "r", "y">>
      [] name = "published_at" -> <<"p", "u", "b", "l", "i", "s", "h", "e", "d", "_", "a", "t">>
      [] name = "ts" -> <<"t", "s">>

\* texts a record carries: a title, a body, a naive and an aware time stamp
TitleText == <<"t">>
BodyText == <<"b", Space, "b">>
NaiveStamp == <<"1", "5", ":", "2", "0", ":", "0", "0">>
AwareStamp == NaiveStamp \o <<"+", "0", "8">>

RenderSources == {"cs", "stcn", "eastmoney", "ths"}
\* what a spider found for one article: a title, maybe a publish time, maybe
\* a body or summary
Articles == [title : {TitleText}, timed : BOOLEAN, bodied : BOOLEAN, doc : 1..NUrls]
UrlText(a) == <<"u", IF a.doc = 1 THEN "1" ELSE "2">>

\* the record a spider returns for an article, as the CSV writer prints it:
\* str() of each value, "" for None
\* eastmoney _fetch_article and fetch_list (category), pub_time a naive datetime
EmExported(a) ==
    [title |-> a.title, url |-> UrlText(a),
     pub_time |-> IF a.timed THEN NaiveStamp ELSE << >>,
     source |-> <<"e">>,
     summary |-> IF a.bodied THEN BodyText ELSE << >>,
     category |-> <<"c">>]
\* ths _fetch_article, published_at = pub.isoformat() or ""
ThsExported(a) ==
    [source |-> <<"h">>, title |-> a.title, url |-> UrlText(a),
     published_at |-> IF a.timed THEN AwareStamp ELSE << >>,
     ts |-> <<"1">>,
     summary |-> IF a.bodied THEN BodyText ELSE << >>]
\* stcn and cs _parse_detail, pub_dt an aware datetime or None
StcnExported(a, site) ==
    [url |-> UrlText(a), title |-> a.title,
     pub_dt |-> IF a.timed THEN AwareStamp ELSE << >>,
     content |-> IF a.bodied THEN BodyText ELSE << >>,
     source |-> IF site = "cs" THEN <<"c">> ELSE <<"s">>]
Exported(site, a) ==
    CASE site = "eastmoney" -> EmExported(a)
      [] site = "ths" -> ThsExported(a)
      [] OTHER -> StcnExported(a, site)

ReplaceChar(s, a, b) == [i \in 1..Len(s) |-> IF s[i] = a THEN b ELSE s[i]]

\* run: norm maps (fn or "").strip().lower() to fn; pick(row, want) returns the
\* stripped value of the first column whose normalised name is want, want with
\* "_" for " " or want with " " for "_"; without one, row.get(want)
Pick(raw, want) ==
    LET w == ColumnChars(want)
        als == {w, ReplaceChar(w, "_", Space), ReplaceChar(w, Space, "_")}
        hits == {fn \in DOMAIN raw : LowerAscii(Strip(ColumnChars(fn))) \in als}
    IN  IF hits # {} THEN Strip(raw[CHOOSE fn \in hits : TRUE])
        ELSE IF want \in DOMAIN raw THEN Strip(raw[want]) ELSE << >>

\* (raw.get(colmap[k]) or pick(raw, want)).strip()
Resolve(raw, col, want) ==
    Strip(IF col \in DOMAIN raw /\ raw[col] # << >> THEN raw[col] ELSE Pick(raw, want))

\* the default column options of the renderer
DefaultColmap ==
    [url |-> "url", title |-> "title", date |-> "pub_dt", content |-> "content",
     source |-> "source"]

\* try_parse_date: "" stays ""; a stamp strptime accepts is printed to the
\* minute; any other text is returned as it is
TryParseDate(s) ==
    IF s = << >> THEN << >>
    ELSE IF Strip(s) = NaiveStamp THEN SubSeq(NaiveStamp, 1, Len(NaiveStamp) - 3)
    ELSE Strip(s)

\* run and build_articles for one row of the file: the fields of the card
RenderRow(raw, colmap) ==
    [url |-> Resolve(raw, colmap.url, "url"),
     title |-> Resolve(raw, colmap.title, "title"),
     date |-> TryParseDate(Resolve(raw, colmap.date, "pub_dt")),
     content |-> Resolve(raw, colmap.content, "content"),
     source |-> Resolve(raw, colmap.source, "source")]

\* the crawler exports the articles of one source, the renderer reads the file
ExportThenRender(site, arts) ==
    [i \in 1..Len(arts) |-> RenderRow(Exported(site, arts[i]), DefaultColmap)]

InitRender ==
    /\ PipeIdle /\ AStockIdle
    /\ fop = "none" /\ fout = << >>
    /\ fin \in [site : RenderSources,
                arts : UNION {[1..n -> Articles] : n \in 1..MaxRecords}]

ApplyRender == Apply("render", ExportThenRender(fin.site, fin.arts))

NextRender == ApplyRender

SpecRender == InitRender /\ [][NextRender]_vars

\* C23: for a file exported by the crawler for any registered source, the
\* renderer with its default column options shows on every card the url, the
\* title and the source of the record, a non-empty date when the record
\* carried a publish time and a non-empty content when it carried a body or
\* summary.
C23_ColumnsResolved ==
    fop = "render" =>
        /\ Len(fout) = Len(fin.arts)
        /\ \A i \in 1..Len(fin.arts) :
              /\ fout[i].url = UrlText(fin.arts[i])
              /\ fout[i].title = fin.arts[i].title
              /\ fout[i].source # << >>
              /\ fin.arts[i].timed => fout[i].date # << >>
              /\ fin.arts[i].bodied => fout[i].content # << >>

-----------------------------------------------------------------------------
(* The renderer's excerpt *)

\* the one character U+2026, horizontal ellipsis
Ellipsis == "U+2026"
\* the class of the regular expression: the full-width comma, full stop,
\* semicolon and enumeration comma, then , . ! ? and whitespace
BreakChars ==
    {"U+FF0C", "U+3002", "U+FF1B", "U+3001", ",", ".", "!", "?", Space, LF, CR}
ExcerptChars == {"a", ",", Space, LF}
ExcerptArgs ==
    [text : UNION {[1..n -> ExcerptChars] : n \in 0..MaxExcerptLen},
     limit : 0..MaxExcerptLimit]

\* re.search(r"[...,.!?\s]\S*$", cut): the start of the leftmost match, a
\* break character with no whitespace behind it but, at most, the line feed
\* that ends the text ($ also matches before it); 0 without a match
BreakStart(cut) ==
    LET at == {i \in 1..Len(cut) :
                  /\ cut[i] \in BreakChars
                  /\ \A j \in (i + 1)..Len(cut) :
                        ~IsSpace(cut[j]) \/ (j = Len(cut) /\ cut[j] = LF)}
    IN  IF at = {} THEN 0 ELSE CHOOSE i \in at : \A j \in at : i <= j

\* text[:limit] for limit >= 0
Prefix(text, n) == SubSeq(text, 1, Min(n, Len(text)))

\* an mk_excerpt that does not strip the cut
MkExcerptKeepingSpace(text, lim) ==
    IF text = << >> THEN << >>
    ELSE IF Len(text) <= lim THEN text
    ELSE LET cut == Prefix(text, lim)
             m == BreakStart(cut)
         IN  (IF m # 0 THEN Prefix(cut, m - 1) ELSE cut) \o <<Ellipsis>>

\* mk_excerpt(text, limit)
MkExcerpt(text, lim) ==
    IF text = << >> THEN << >>
    ELSE IF Len(text) <= lim THEN text
    ELSE LET cut == Prefix(text, lim)
             m == BreakStart(cut)
         IN  RStrip(IF m # 0 THEN Prefix(cut, m - 1) ELSE cut) \o <<Ellipsis>>

InitExcerpt ==
    /\ PipeIdle /\ AStockIdle
    /\ fop = "none" /\ fout = << >>
    /\ fin \in ExcerptArgs

ApplyMkExcerpt == Apply("mk_excerpt", MkExcerpt(fin.text, fin.limit))

NextExcerpt == ApplyMkExcerpt

SpecExcerpt == InitExcerpt /\ [][NextExcerpt]_vars

\* C24: mk_excerpt returns a text of at most `limit` characters unchanged;
\* of a longer one it returns a prefix of at most `limit` whole characters
\* without trailing whitespace, followed by one ellipsis, so the result has at
\* most limit + 1 characters and ends with the ellipsis.
C24_ExcerptShape ==
    fop = "mk_excerpt" =>
        IF Len(fin.text) <= fin.limit THEN fout = fin.text
        ELSE /\ 1 <= Len(fout) /\ Len(fout) <= fin.limit + 1
             /\ fout[Len(fout)] = Ellipsis
             /\ LET kept == SubSeq(fout, 1, Len(fout) - 1)
                IN  /\ kept = SubSeq(fin.text, 1, Len(kept))
                    /\ kept # << >> => kept[Len(kept)] \notin {Space, LF, CR}

\* a text longer than the limit was cut back over a word and two blanks
C24_Witness ==
    /\ fop = "mk_excerpt"
    /\ fin.text = <<"a", Space, Space, "a", "a">> /\ fin.limit = 4
    /\ fout = <<"a", Ellipsis>>

-----------------------------------------------------------------------------
(* Title extraction *)

\* ths _extract_title: the number of patterns in pats
NumThsPatterns == 9
\* eastmoney _pick_title: the number of selectors; <title> comes after them
NumEmSelectors == 8

\* what a strategy finds on a page: nothing, or a text; the texts are a tag
\* with a blank, and a tag with a title and a blank
BlankMarkup == <<"<", "b", ">", Space>>
TitleMarkup == <<"<", "b", ">", "t", Space, Space, "t", Space>>
Findings == {None, Some(BlankMarkup), Some(TitleMarkup)}
\* the text of <title> holds no tags
TitlePlain == <<"t", Space, Space, "t", Space>>
PlainFindings == {None, Some(<<Space>>), Some(TitlePlain)}
TitlePages ==
    [site : {"ths"}, found : [1..NumThsPatterns -> Findings]]
        \cup { p \in [site : {"eastmoney"},
                      found : [1..(NumEmSelectors + 1) -> Findings \cup PlainFindings]] :
                   /\ p.found[NumEmSelectors + 1] \in PlainFindings
                   /\ \A i \in 1..NumEmSelectors : p.found[i] \in Findings }

\* re.sub(r"(?is)<[^>]+>", "", s)
RECURSIVE RemoveTags(_)
RemoveTags(s) ==
    IF s = << >> THEN << >>
    ELSE LET close == FirstOf(s, {">"}, 3)
         IN  IF Head(s) = "<" /\ close <= Len(s)
             THEN RemoveTags(SubSeq(s, close + 1, Len(s)))
             ELSE <<Head(s)>> \o RemoveTags(Tail(s))
\* re.sub(r"\s+", " ", s)
RECURSIVE CollapseSpaces(_)
CollapseSpaces(s) ==
    IF s = << >> THEN << >>
    ELSE IF IsSpace(Head(s))
         THEN <<Space>> \o CollapseSpaces(LStrip(s))
         ELSE <<Head(s)>> \o CollapseSpaces(Tail(s))
\* ths _strip_tags (scripts, styles and comments do not occur in the texts)
StripTags(s) == Strip(CollapseSpaces(RemoveTags(s)))
\* eastmoney _text(el): get_text(strip=True) drops the tags, then as above
EmText(s) == Strip(CollapseSpaces(Strip(RemoveTags(s))))

\* ths _extract_title: the first pattern that matches decides,
\* return _strip_tags(m.group(1)); None when no pattern matches
RECURSIVE ThsExtractTitleFrom(_, _)
ThsExtractTitleFrom(found, i) ==
    IF i > NumThsPatterns THEN [title |-> None, by |-> 0]
    ELSE IF found[i] # None THEN [title |-> Some(StripTags(found[i][1])), by |-> i]
    ELSE ThsExtractTitleFrom(found, i + 1)
ThsExtractTitle(found) == ThsExtractTitleFrom(found, 1)

\* eastmoney _pick_title: the first selector with an element and a non-empty
\* text decides; after the selectors the <title> text, stripped
RECURSIVE EmPickTitleFrom(_, _)
EmPickTitleFrom(found, i) ==
    IF i > NumEmSelectors
    THEN [title |-> Some(IF found[i] = None THEN << >> ELSE Strip(found[i][1])),
          by |-> i]
    ELSE IF found[i] # None /\ EmText(found[i][1]) # << >>
         THEN [title |-> Some(EmText(found[i][1])), by |-> i]
         ELSE EmPickTitleFrom(found, i + 1)
EmPickTitle(found) == EmPickTitleFrom(found, 1)

InitTitle ==
    /\ PipeIdle /\ AStockIdle
    /\ fop = "none" /\ fout = << >>
    /\ fin \in TitlePages

ApplyThsExtractTitle ==
    fin.site = "ths" /\ Apply("ths_extract_title", ThsExtractTitle(fin.found))
ApplyEmPickTitle ==
    fin.site = "eastmoney" /\ Apply("em_pick_title", EmPickTitle(fin.found))

NextTitle == ApplyThsExtractTitle \/ ApplyEmPickTitle

SpecTitle == InitTitle /\ [][NextTitle]_vars

\* strategy i yields a title on the page
Yields(i) == fin.found[i] \in {Some(TitleMarkup), Some(TitlePlain)}
\* the extracted title is empty (None counts as empty)
NoTitle == fout.title = None \/ fout.title = Some(<< >>)

\* C25: title extraction returns the result of the first strategy, in the
\* fixed order, that yields a non-empty title; a strategy that matches but
\* yields an empty string is passed over, so the title is empty only when no
\* strategy yields one.
C25_FirstNonEmptyTitle ==
    fop # "none" =>
        /\ NoTitle <=> \A i \in 1..NumThsPatterns : ~Yields(i)
        /\ ~NoTitle =>
              /\ Yields(fout.by)
              /\ \A i \in 1..(fout.by - 1) : ~Yields(i)

-----------------------------------------------------------------------------
(* a_stock_news stcn.fetch_detail *)

\* for attempt in range(3)
DetailAttempts == 3
\* time.sleep(0.6), in milliseconds
DetailSleepMs == 600

InitFetchDetail ==
    /\ PipeIdle /\ AStockIdle
    /\ fop = "fetch_detail"
    /\ fin \in [rs : [1..DetailAttempts -> Statuses]]
    /\ fout = [at |-> "loop", attempt |-> 0, gets |-> 0, sleeps |-> << >>,
               last_err |-> None, raised |-> None, returned |-> None]

\* one round of the loop: the GET and raise_for_status; any exception is kept
\* as last_err, and before the last attempt the round sleeps and continues,
\* at the last attempt it raises
FetchDetailRound ==
    /\ fop = "fetch_detail" /\ fout.at = "loop" /\ fout.attempt < DetailAttempts
    /\ LET n == fout.gets + 1
           st == StatusAt(fin.rs, n)
           err == [attempt |-> n, status |-> st]
       IN  fout' =
             IF st # 0 /\ ~IsErrorStatus(st)
             THEN [fout EXCEPT !.at = "returned", !.gets = n, !.returned = Some(st)]
             ELSE IF fout.attempt < DetailAttempts - 1
             THEN [fout EXCEPT !.gets = n, !.last_err = Some(err), !.attempt = @ + 1,
                               !.sleeps = Append(@, DetailSleepMs)]
             ELSE [fout EXCEPT !.at = "raised", !.gets = n, !.last_err = Some(err),
                               !.raised = Some(err)]
    /\ UNCHANGED <<fop, fin, pipeVars, astockVars>>

NextFetchDetail == FetchDetailRound

SpecFetchDetail == InitFetchDetail /\ [][NextFetchDetail]_vars

\* C26: fetch_detail does not retry a definitive client error: once a GET
\* answered 404 or 410, that request was the only one, the error is raised
\* and no wait took place.
C26_NoRetryOnGone ==
    (fop = "fetch_detail" /\ fout.gets >= 1 /\ fin.rs[1] \in {404, 410}) =>
        /\ fout.at = "raised"
        /\ fout.gets = 1
        /\ fout.sleeps = << >>

-----------------------------------------------------------------------------
(* a_stock_news main._recent_enough on rows with a URL *)

\* \d{1,2} of n characters at position i
DigitsAt(s, i, n) ==
    /\ CharAt(s, i) \in Digits
    /\ n = 2 => CharAt(s, i + 1) \in Digits
\* the value of one or two digits
DigitValue(c) ==
    CHOOSE v \in 0..9 : <<"0", "1", "2", "3", "4", "5", "6", "7", "8", "9">>[v + 1] = c
NumberAt(s, i, n) ==
    IF n = 1 THEN DigitValue(s[i]) ELSE 10 * DigitValue(s[i]) + DigitValue(s[i + 1])
\* "/20\d{2}" at position i
YearAt(s, i) ==
    /\ CharAt(s, i) = "/" /\ CharAt(s, i + 1) = "2" /\ CharAt(s, i + 2) = "0"
    /\ DigitsAt(s, i + 3, 2)

\* r"/(20\d{2})-(\d{1,2})-(\d{1,2})/": the month and day of the leftmost match
DashedDayMatches(path) ==
    LET at == {t \in (1..Len(path)) \X {1, 2} \X {1, 2} :
                /\ YearAt(path, t[1]) /\ CharAt(path, t[1] + 5) = "-"
                /\ DigitsAt(path, t[1] + 6, t[2])
                /\ CharAt(path, t[1] + 6 + t[2]) = "-"
                /\ DigitsAt(path, t[1] + 7 + t[2], t[3])
                /\ CharAt(path, t[1] + 7 + t[2] + t[3]) = "/"}
    IN  {[mo |-> NumberAt(path, t[1] + 6, t[2]),
          d |-> NumberAt(path, t[1] + 7 + t[2], t[3])] :
            t \in {u \in at : \A v \in at : u[1] <= v[1]}}
\* r"/(20\d{2})-(\d{1,2})/"
DashedMonthMatches(path) ==
    LET at == {t \in (1..Len(path)) \X {1, 2} :
                /\ YearAt(path, t[1]) /\ CharAt(path, t[1] + 5) = "-"
                /\ DigitsAt(path, t[1] + 6, t[2])
                /\ CharAt(path, t[1] + 6 + t[2]) = "/"}
    IN  {[mo |-> NumberAt(path, t[1] + 6, t[2]), d |-> 1] :
            t \in {u \in at : \A v \in at : u[1] <= v[1]}}
\* (0[1-9]|1[0-2]) at position i
CompactMonthAt(s, i) ==
    \/ CharAt(s, i) = "0" /\ CharAt(s, i + 1) \in Digits \ {"0"}
    \/ CharAt(s, i) = "1" /\ CharAt(s, i + 1) \in {"0", "1", "2"}
\* (0[1-9]|[12]\d|3[01]) at position i
CompactDayAt(s, i) ==
    \/ CharAt(s, i) = "0" /\ CharAt(s, i + 1) \in Digits \ {"0"}
    \/ CharAt(s, i) \in {"1", "2"} /\ CharAt(s, i + 1) \in Digits
    \/ CharAt(s, i) = "3" /\ CharAt(s, i + 1) \in {"0", "1"}
\* r"/(20\d{2})(0[1-9]|1[0-2])(0[1-9]|[12]\d|3[01])/" or r"/(20\d{2})(0[1-9]|1[0-2])/"
CompactMatch(path) ==
    \E i \in 1..Len(path) :
        /\ YearAt(path, i) /\ CompactMonthAt(path, i + 5)
        /\ \/ CharAt(path, i + 7) = "/"
           \/ CompactDayAt(path, i + 7) /\ CharAt(path, i + 9) = "/"

\* datetime(y, mo, d) raises ValueError outside these ranges (the length of
\* the month is not looked at)
ValidDate(md) == md.mo \in 1..12 /\ md.d \in 1..31

\* a date_from_url that does not let datetime() check month and day
DateFromUrlUnchecked(url, midnight) ==
    LET path == LowerAscii(Urlparse(url).path)
    IN  IF DashedDayMatches(path) # {} \/ DashedMonthMatches(path) # {} \/ CompactMatch(path)
        THEN Some(midnight) ELSE None

\* a_stock_news stcn.date_from_url: the first of the four expressions that
\* matches gives the date; `midnight` is 00:00 UTC+8 of the date the digits
\* name.  A ValueError of datetime() ends _recent_enough's try block, which
\* then returns False as for a URL without a date: None here
DateFromUrl(url, midnight) ==
    LET path == LowerAscii(Urlparse(url).path)
        days == DashedDayMatches(path)
        months == DashedMonthMatches(path)
    IN  IF days # {}
        THEN (IF \E md \in days : ~ValidDate(md) THEN None ELSE Some(midnight))
        ELSE IF months # {}
        THEN (IF \E md \in months : ~ValidDate(md) THEN None ELSE Some(midnight))
        ELSE IF CompactMatch(path) THEN Some(midnight)
        ELSE None

\* URLs of rows: hosts on and off stcn.com, paths with and without a date
RowHosts ==
    { <<"kuaixun.stcn.com">>, <<"www.stcn.com", ".org">>, <<"evil", ".org">> }
DatedRowPaths ==
    { <<"/", "2024", "-", "01", "-", "02", "/", "c1", ".html">>,
      <<"/", "2024", "01", "02", "/", "c1", ".shtml">>,
      <<"/", "2024", "-", "01", "/", "c1", ".html">>,
      <<"/", "stcn.com", "/", "2024", "-", "01", "-", "02", "/", "c1", ".html">> }
UndatedRowPaths ==
    { <<"/", "a", "/", "c1", ".html">>,
      <<"/", "2024", "-", "13", "-", "02", "/", "c1", ".html">>,
      <<"/", "stcn.com", "/", "a", "/", "c1", ".html">> }
\* published_at: absent, a text fromisoformat rejects, or a time at or just
\* before a cutoff
RowStamps ==
    {None, Some([iso |-> FALSE, wall |-> NowCst])}
        \cup {Some([iso |-> TRUE, wall |-> c + k]) : c \in CutoffsCst, k \in {-1, 0}}
RowArgs ==
    [since : 0..MaxSinceDays,
     off : MachineOffsets,
     published_at : RowStamps,
     host : RowHosts,
     path : DatedRowPaths \cup UndatedRowPaths,
     midnight : {c + k : c \in CutoffsCst, k \in {-1, 0}}]

RowUrlOf(a) == SpellAll(<<"https://">> \o a.host \o a.path)
\* the row _recent_enough is given, with the stcn module loaded
RowWithUrl(a) ==
    [published_at |-> a.published_at,
     onStcn |-> Contains(Spell("stcn.com"), RowUrlOf(a)),
     urlDate |-> DateFromUrl(RowUrlOf(a), a.midnight)]

InitRow ==
    /\ PipeIdle /\ AStockIdle
    /\ fop = "none" /\ fout = << >>
    /\ fin \in RowArgs

ApplyRecentEnoughRow ==
    Apply("recent_enough_row", RecentEnough(RowWithUrl(fin), fin.since, fin.off))

NextRow == ApplyRecentEnoughRow

SpecRow == InitRow /\ [][NextRow]_vars

\* the time published_at parses to, if it parses
ParsedAt == ToDt(RowWithUrl(fin).published_at, fin.off)
RowCutoff == NowCst - fin.since * Day
\* the URL's host is stcn.com or below it
UrlOnStcn == fin.host = <<"kuaixun.stcn.com">>
\* the text of the URL holds "stcn.com" somewhere
UrlNamesStcn ==
    \E i \in 1..Len(fin.host \o fin.path) :
        (fin.host \o fin.path)[i] \in {"kuaixun.stcn.com", "www.stcn.com", "stcn.com"}
UrlDated == fin.path \in DatedRowPaths

-----------------------------------------------------------------------------
(* a_stock_news main.run_sina over the items of the Sina spider *)

\* spiders/sina.ts_to_str: the instant on the machine's clock (zone UTC+off),
\* spelled "%Y-%m-%d %H:%M:%S%z"
TsToStr(ts, off) ==
    [iso |-> TRUE, wall |-> ts - CstOffset * Hour + off * Hour, zone |-> off]

\* one entry of the roll API: its ctime (an instant, in seconds on the UTC+8
\* clock) and its title
SinaEntries ==
    [ctime : {NowCst - 1, NowCst - MaxSinceDays * Day - 1}, title : {<<"a">>, <<"b">>}]
SinaFeeds == UNION {[1..n -> SinaEntries] : n \in 0..MaxFeedItems}

\* spiders/sina._fetch_page: the dictionary built for one entry
SinaItem(e, off) ==
    [source |-> "sina",
     title |-> e.title,
     url |-> <<"https://", "finance.", "sina.com.cn", "/", "a", "/", "c1", ".shtml">>,
     pub_time |-> TsToStr(e.ctime, off),
     summary |-> << >>,
     media |-> << >>]

\* dict.get(key): None for a key the dictionary does not hold
DictGet(d, key) == IF key \in DOMAIN d THEN Some(d[key]) ELSE None

\* the row _recent_enough reads out of a dictionary: published_at and url
RowOfDict(d) ==
    LET url == IF "url" \in DOMAIN d THEN SpellAll(d["url"]) ELSE << >>
    IN  [published_at |-> DictGet(d, "published_at"),
         onStcn |-> Contains(Spell("stcn.com"), url),
         urlDate |-> DateFromUrl(url, NowCst)]

\* main._keyword_ok on a dictionary: (row.get("title") or "")
KeywordOkDict(d, kw) ==
    KeywordTitleOk(kw, IF "title" \in DOMAIN d THEN d["title"] ELSE << >>)

SinaArgs ==
    [limit : 1..MaxLimit,
     since : 0..MaxSinceDays,
     off : MachineOffsets,
     keyword : {None, Some(<<"a">>)},
     feed : SinaFeeds]

InitSina ==
    /\ PipeIdle /\ AStockIdle
    /\ fop = "run_sina"
    /\ fin \in SinaArgs
    /\ fout = [at |-> "fetch", lst |-> << >>, i |-> 1, rows |-> << >>, saved |-> << >>]

\* lst = sina.fetch_list_sync(limit=limit): results[:limit]
SinaFetchListSync ==
    /\ fop = "run_sina" /\ fout.at = "fetch"
    /\ fout' = [fout EXCEPT
                   !.at = "filter",
                   !.lst = [k \in 1..Min(fin.limit, Len(fin.feed)) |->
                               SinaItem(fin.feed[k], fin.off)]]
    /\ UNCHANGED <<fop, fin, pipeVars, astockVars>>

\* one round of `for it in lst`
SinaFilterItem ==
    /\ fop = "run_sina" /\ fout.at = "filter" /\ fout.i <= Len(fout.lst)
    /\ LET it == fout.lst[fout.i]
           keep == /\ RecentEnough(RowOfDict(it), fin.since, fin.off)
                   /\ KeywordOkDict(it, fin.keyword)
       IN  fout' = [fout EXCEPT
                       !.i = @ + 1,
                       !.rows = IF keep THEN Append(@, it) ELSE @]
    /\ UNCHANGED <<fop, fin, pipeVars, astockVars>>

\* after the loop: the warning and return for no rows, else dump_csv(rows, out)
SinaDumpCsv ==
    /\ fop = "run_sina" /\ fout.at = "filter" /\ fout.i > Len(fout.lst)
    /\ fout' = [fout EXCEPT !.at = "done", !.saved = fout.rows]
    /\ UNCHANGED <<fop, fin, pipeVars, astockVars>>

NextSina == SinaFetchListSync \/ SinaFilterItem \/ SinaDumpCsv

SpecSina == InitSina /\ [][NextSina]_vars

\* the entry's publish time lies within since_days and its title holds the keyword
SinaWanted(e) ==
    /\ e.ctime >= NowCst - fin.since * Day
    /\ fin.keyword # None => \E k \in 1..Len(e.title) : e.title[k] = fin.keyword[1][1]

\* C28: run_sina keeps every item the Sina spider returned whose publish time
\* lies within since_days and whose title contains the keyword.
C28_RecentSinaItemKept ==
    (fop = "run_sina" /\ fout.at = "done") =>
        \A k \in 1..Len(fout.lst) :
            SinaWanted(fin.feed[k]) =>
                \E j \in 1..Len(fout.saved) : fout.saved[j] = fout.lst[k]

-----------------------------------------------------------------------------
(* a_stock_news stcn._fetch_list_from_html as a function of the list pages *)

\* the links of a list page: two articles and a navigation link
PageEntries ==
    { Entry(<<"A">>, Href("abs", "site", 1, FALSE)),
      Entry(<<"b">>, Href("abs", "site", 2, FALSE)),
      Entry(<<"A">>, Href("abs", "site", 3, TRUE)) }
PageOutcomes ==
    {None} \cup {Some(f) : f \in UNION {[1..k -> PageEntries] : k \in 0..MaxFeedItems}}
HtmlListArgs == [limit : Limits, pages : [1..NumHtmlListUrls -> PageOutcomes]]

\* `for url in HTML_LIST_URLS` from page k on: a failed request is skipped,
\* and the loop is left once len(items) >= limit
RECURSIVE ScanPages(_, _, _, _)
ScanPages(pages, k, items, lim) ==
    IF k > Len(pages) THEN items
    ELSE IF pages[k] = None THEN ScanPages(pages, k + 1, items, lim)
    ELSE LET items2 == ScanEntries(pages[k][1], items, lim, TRUE)
         IN  IF Len(items2) >= lim THEN items2
             ELSE ScanPages(pages, k + 1, items2, lim)

\* _fetch_list_from_html(limit)
FetchListFromHtml(pages, lim) ==
    Take(UniqByUrl(ScanPages(pages, 1, << >>, lim), << >>), lim)

InitHtmlList ==
    /\ PipeIdle /\ AStockIdle
    /\ fop = "none" /\ fout = << >>
    /\ fin \in HtmlListArgs

ApplyFetchListFromHtml ==
    Apply("fetch_list_from_html", FetchListFromHtml(fin.pages, fin.limit))

NextHtmlList == ApplyFetchListFromHtml

SpecHtmlList == InitHtmlList /\ [][NextHtmlList]_vars

\* the article links of the pages that were served, in page order
RECURSIVE PageLinks(_, _)
PageLinks(pages, k) ==
    IF k > Len(pages) THEN << >>
    ELSE (IF pages[k] = None THEN << >>
          ELSE LET es == pages[k][1]
               IN  [j \in 1..Len(es) |-> [title |-> es[j].title, url |-> HttpxJoin(es[j].href)]])
         \o PageLinks(pages, k + 1)
ArticleLinks ==
    SelectSeq(PageLinks(fin.pages, 1),
              LAMBDA e : e.title # << >> /\ LooksLikeArticle(e.url))
DistinctArticleUrls == {ArticleLinks[j].url : j \in 1..Len(ArticleLinks)}
FirstAt(u) == CHOOSE j \in 1..Len(ArticleLinks) :
                  /\ ArticleLinks[j].url = u
                  /\ \A h \in 1..(j - 1) : ArticleLinks[h].url # u

\* C29: _fetch_list_from_html(limit) returns the first min(limit, D) distinct
\* article links of the list pages in page order, D being the number of
\* distinct article links on the pages; repeated links do not reduce the
\* number of records below min(limit, D).
C29_FirstDistinctLinks ==
    fop = "fetch_list_from_html" =>
        /\ Len(fout) = Min(fin.limit, Cardinality(DistinctArticleUrls))
        /\ \A i \in 1..Len(fout) :
              /\ fout[i].url \in DistinctArticleUrls
              /\ Cardinality({u \in DistinctArticleUrls : FirstAt(u) < FirstAt(fout[i].url)}) = i - 1

-----------------------------------------------------------------------------
(* UnifiedNews run_all.main: the crawlers one by one, then the conversions *)

MaxSources == 2

\* the names --sources can hold, in the order their CSV files sort in
RunAllSources == <<"eastmoney", "stcn", "ths">>
\* the CSV files of the data directory by number: 0 is a file of an earlier
\* day, n is RunAllSources[n] + "_news.csv"; the numbers sort as the paths do
ExitCodes == {0, 1}
RunAllArgs ==
    [sources : UNION {[1..n -> 1..Len(RunAllSources)] : n \in 1..MaxSources},
     convert_all : BOOLEAN,
     stale : SUBSET {0}]

\* a run() that does not look at the return code
RunIgnoringExit(rc) == "returned"

\* run(argv, cwd): subprocess.run waits for the child to end; a return code
\* other than 0 raises SystemExit
Run(rc) == IF rc # 0 THEN "SystemExit" ELSE "returned"

\* sorted(...) of a set of file numbers
RECURSIVE SortedFiles(_)
SortedFiles(S) ==
    IF S = {} THEN << >>
    ELSE LET lo == CHOOSE x \in S : \A y \in S : x <= y
         IN  <<lo>> \o SortedFiles(S \ {lo})

\* the state after "t0 = time.time()": log is the list of the commands run()
\* printed and ran, fresh the CSV files written since t0
InitRunAll ==
    /\ PipeIdle /\ AStockIdle
    /\ fop = "run_all"
    /\ fin \in RunAllArgs
    /\ fout = [at |-> "crawl", k |-> 1, log |-> << >>, fresh |-> {},
               targets |-> << >>, j |-> 1]

\* one round of `for src in args.sources`: the crawler runs to its end with
\* some return code and may have written its CSV file
RunCrawler ==
    /\ fop = "run_all" /\ fout.at = "crawl" /\ fout.k <= Len(fin.sources)
    /\ \E rc \in ExitCodes, wrote \in BOOLEAN :
          fout' = [fout EXCEPT
                      !.log = Append(@, [cmd |-> "main.py", arg |-> fin.sources[fout.k], rc |-> rc]),
                      !.fresh = IF wrote THEN @ \cup {fin.sources[fout.k]} ELSE @,
                      !.at = IF Run(rc) = "SystemExit" THEN "exit" ELSE @,
                      !.k = @ + 1]
    /\ UNCHANGED <<fop, fin, pipeVars, astockVars>>

\* step 2: every CSV with --convert-all, else the ones written since t0;
\* SystemExit or return when there is none
SelectTargets ==
    /\ fop = "run_all" /\ fout.at = "crawl" /\ fout.k > Len(fin.sources)
    /\ LET targets == IF fin.convert_all THEN SortedFiles(fin.stale \cup fout.fresh)
                      ELSE SortedFiles(fout.fresh)
       IN  fout' = [fout EXCEPT
                       !.targets = targets,
                       !.at = IF targets = << >>
                              THEN (IF fin.convert_all THEN "exit" ELSE "done")
                              ELSE "convert"]
    /\ UNCHANGED <<fop, fin, pipeVars, astockVars>>

\* one round of `for p in targets`
RunWebgen ==
    /\ fop = "run_all" /\ fout.at = "convert" /\ fout.j <= Len(fout.targets)
    /\ \E rc \in ExitCodes :
          fout' = [fout EXCEPT
                      !.log = Append(@, [cmd |-> "webgen", arg |-> fout.targets[fout.j], rc |-> rc]),
                      !.at = IF Run(rc) = "SystemExit" THEN "exit" ELSE @,
                      !.j = @ + 1]
    /\ UNCHANGED <<fop, fin, pipeVars, astockVars>>

\* the last print
RunAllDone ==
    /\ fop = "run_all" /\ fout.at = "convert" /\ fout.j > Len(fout.targets)
    /\ fout' = [fout EXCEPT !.at = "done"]
    /\ UNCHANGED <<fop, fin, pipeVars, astockVars>>

NextRunAll == RunCrawler \/ SelectTargets \/ RunWebgen \/ RunAllDone

SpecRunAll == InitRunAll /\ [][NextRunAll]_vars

\* the crawler commands of the log
CrawlsRun == {i \in 1..Len(fout.log) : fout.log[i].cmd = "main.py"}
ConversionsRun == {i \in 1..Len(fout.log) : fout.log[i].cmd = "webgen"}

\* C30: run_all runs the crawlers one after another in the order of the
\* sources and converts only after all crawls have ended; when one crawler
\* exits non-zero nothing else is run: no later source is crawled and no CSV
\* is converted.
C30_CrawlsThenConversions ==
    fop = "run_all" =>
        /\ \A i \in CrawlsRun :
              /\ i <= Len(fin.sources) /\ fout.log[i].arg = fin.sources[i]
              /\ \A h \in 1..(i - 1) : h \in CrawlsRun
        /\ ConversionsRun # {} =>
              /\ Cardinality(CrawlsRun) = Len(fin.sources)
              /\ \A i \in CrawlsRun : fout.log[i].rc = 0
        /\ \A i \in CrawlsRun :
              fout.log[i].rc # 0 => Len(fout.log) = i /\ fout.at = "exit"

\* the first of two crawlers wrote its CSV and exited non-zero: run_all ended there
C30_Witness ==
    /\ fop = "run_all" /\ Len(fin.sources) = 2
    /\ fout.at = "exit" /\ Len(fout.log) = 1 /\ fout.log[1].rc = 1
    /\ fout.log[1].arg = fin.sources[1] /\ 1 \in fout.fresh

====
